---- MODULE Spec2Model ----
(***************************************************************************)
(* Port-forward session manager (aws_tui/app.py) and its history store     *)
(* (aws_tui/port_history.py).                                              *)
(*                                                                         *)
(* The application is a Textual App: every handler (start_port_forward,    *)
(* stop_port_forward, shutdown_active_port_forwards and the set_interval   *)
(* callback _poll_active_port_forwards) is a synchronous function run on   *)
(* the one event-loop thread, so handlers never interleave with each       *)
(* other.  What does interleave with a running handler is the environment: *)
(* a child process may exit, the wall clock may advance, and the           *)
(* supervising process itself may die and be started again.                *)
(***************************************************************************)
EXTENDS Integers, Sequences, FiniteSets, TLC

\* ------------------------------------------------------------------ bounds
MaxRecords == 2
MaxClock == 2
\* The store on its own: rows created, rows created for a listing, seconds passed.
MaxRows == 2
MaxListed == 4
MaxStoreClock == 3

\* --------------------------------------------------------- program constants
SIGTERM == 15
SIGKILL == 9

ACTIVE_STATUSES == {"active", "simulated-active"}

TerminalStatuses == {"stopped", "completed", "failed", "interrupted", "simulated-stopped"}

DEFAULT_PROFILE == "default"
DEFAULT_REGION == "us-west-1"

\* ------------------------------------------------------------ input domains
RecordIds == 1..MaxRecords

\* InstanceSummary values handed to start_port_forward (instance_id, name).
Instances ==
    { [instance_id |-> "T1", name |-> "bastion"],
      [instance_id |-> "T2", name |-> ""] }

\* A forward name is a sequence of characters; " " and "\t" are the whitespace ones.
\* The start requests tried: target, remote port, local port, forward name.
StartRequests ==
    { [instance |-> CHOOSE i \in Instances : i.instance_id = "T1",
       remote_port |-> 80, local_port |-> 8080, forward_name |-> <<"w", "e", "b">>],
      [instance |-> CHOOSE i \in Instances : i.instance_id = "T2",
       remote_port |-> 5432, local_port |-> 15432, forward_name |-> <<" ">>] }

\* Exit codes a child can end with: success, an error, death by SIGTERM (sent
\* by anyone), and death by SIGKILL once _terminate_process has sent it.
ExitCodes(process) ==
    {0, 1, -SIGTERM} \cup (IF "SIGKILL" \in {process.signals[i] : i \in DOMAIN process.signals}
                           THEN {-SIGKILL} ELSE {})

\* A missing value (Python None, SQL NULL) is the empty sequence, a present
\* value v is <<v>>.
None == <<>>
Some(v) == <<v>>

VARIABLES
    store,                  \* port_forward_history table: record_id -> row
    active_port_forwards,   \* AwsTuiApp.active_port_forwards: record_id -> runtime
    aws_cli_available,      \* AwsTuiApp.aws_cli_available
    clock,                  \* wall clock read by utc_now()
    pc,                     \* position of the handler that is running
    cur,                    \* record id the running handler is about (0: none running)
    in_shutdown,            \* shutdown_active_port_forwards is running
    in_finally,             \* app.run() has ended: the finally block of main is running
    exit_in_progress,       \* AwsTuiApp.exit_in_progress: a confirmed quit is under way
    shutdown_pending,       \* ids its loop has still to stop
    shutdown_ids,           \* tuple(self.active_port_forwards) of its latest call
    step,                   \* name of the step just taken
    last,                   \* latest handler call: op, id, ret
    status_writes           \* per record: who applied a status update, in order

vars == << store, active_port_forwards, aws_cli_available, clock, pc, cur,
           in_shutdown, in_finally, exit_in_progress, shutdown_pending, shutdown_ids, step, last, status_writes >>

\* ------------------------------------------------------------- pure helpers

\* The characters str.strip() removes: the space and, of the others, the tab.
Whitespace == {" ", "\t"}

\* str.strip() on a forward name.
RECURSIVE LStrip(_)
LStrip(s) == IF s # <<>> /\ Head(s) \in Whitespace THEN LStrip(Tail(s)) ELSE s

RECURSIVE RStrip(_)
RStrip(s) ==
    IF s # <<>> /\ s[Len(s)] \in Whitespace THEN RStrip(SubSeq(s, 1, Len(s) - 1)) ELSE s

Strip(s) == RStrip(LStrip(s))

\* SQL TRIM(x): removes spaces only, at both ends.
RECURSIVE SqlLTrim(_)
SqlLTrim(s) == IF s # <<>> /\ Head(s) = " " THEN SqlLTrim(Tail(s)) ELSE s

RECURSIVE SqlRTrim(_)
SqlRTrim(s) ==
    IF s # <<>> /\ s[Len(s)] = " " THEN SqlRTrim(SubSeq(s, 1, Len(s) - 1)) ELSE s

SqlTrim(s) == SqlRTrim(SqlLTrim(s))

\* f"forward-{local_port}-to-{remote_port}"
DefaultForwardName(local_port, remote_port) ==
    << "forward-" \o ToString(local_port) \o "-to-" \o ToString(remote_port) >>

\* Mutant: the supplied name is stored as given, without strip().
CreateForwardNameUnstripped(forward_name, local_port, remote_port) ==
    IF forward_name # <<>>
    THEN forward_name
    ELSE DefaultForwardName(local_port, remote_port)

\* forward_name.strip() or f"forward-{local_port}-to-{remote_port}"
CreateForwardName(forward_name, local_port, remote_port) ==
    IF Strip(forward_name) # <<>>
    THEN Strip(forward_name)
    ELSE DefaultForwardName(local_port, remote_port)

\* InstanceSummary.display_name
DisplayName(instance) ==
    IF instance.name # "" THEN instance.name ELSE instance.instance_id

\* shlex.join(AwsInstance(...).build_port_forward_command(remote, local))
CommandText(instance_id, remote_port, local_port) ==
    "aws ssm start-session --target " \o instance_id
    \o " --profile " \o DEFAULT_PROFILE \o " --region " \o DEFAULT_REGION
    \o " --document-name AWS-StartPortForwardingSession --parameters "
    \o "'{\"portNumber\": [\"" \o ToString(remote_port)
    \o "\"], \"localPortNumber\": [\"" \o ToString(local_port) \o "\"]}'"

\* utc_now()
UtcNow == clock

\* uuid4().hex: an identifier no row holds yet.
FreshId == Cardinality(DOMAIN store) + 1

\* ---------------------------------------------------------- history store

\* PortForwardHistoryStore.create: INSERT of one row, ended_at NULL.
StoreCreate(st, id, forward_name, instance_id, instance_name, remote_port, local_port, status, command, note) ==
    [k \in DOMAIN st \cup {id} |->
        IF k = id
        THEN [ record_id     |-> id,
               forward_name  |-> CreateForwardName(forward_name, local_port, remote_port),
               instance_id   |-> instance_id,
               instance_name |-> instance_name,
               remote_port   |-> remote_port,
               local_port    |-> local_port,
               started_at    |-> UtcNow,
               ended_at      |-> None,
               status        |-> status,
               command       |-> command,
               note          |-> note ]
        ELSE st[k]]

\* Mutant: ended_at left out of the allowed columns.
AllowedColumnsWithoutEndedAt ==
    { "forward_name", "instance_id", "instance_name", "remote_port", "local_port",
      "started_at", "status", "command", "note" }

\* Columns PortForwardHistoryStore.update may set.
AllowedColumns ==
    { "forward_name", "instance_id", "instance_name", "remote_port", "local_port",
      "started_at", "ended_at", "status", "command", "note" }

\* PortForwardHistoryStore.update: UPDATE ... SET <changes> WHERE record_id = id.
StoreUpdate(st, id, changes) ==
    [k \in DOMAIN st |->
        IF k = id
        THEN [f \in DOMAIN st[k] |->
                 IF f \in (DOMAIN changes) \cap AllowedColumns THEN changes[f] ELSE st[k][f]]
        ELSE st[k]]

\* PortForwardHistoryStore._ensure_columns: backfill of the forward names
\* with TRIM(COALESCE(forward_name, '')) = ''.
EnsureColumns(st) ==
    [k \in DOMAIN st |->
        IF SqlTrim(st[k].forward_name) = <<>>
        THEN [st[k] EXCEPT !.forward_name = DefaultForwardName(st[k].local_port, st[k].remote_port)]
        ELSE st[k]]

\* Mutant: the WHERE clause without its status test.
IsUnfinishedAnyStatus(row) == row.ended_at = None

\* Mutant: the WHERE clause names the status active only.
IsUnfinishedRealOnly(row) == row.status = "active" /\ row.ended_at = None

\* Row filter of _mark_unfinished_as_interrupted.
IsUnfinished(row) == row.status \in ACTIVE_STATUSES /\ row.ended_at = None

\* Mutant: store initialization deletes the unfinished rows.
MarkUnfinishedDeletes(st) ==
    [k \in {j \in DOMAIN st : ~IsUnfinished(st[j])} |-> st[k]]

\* PortForwardHistoryStore._mark_unfinished_as_interrupted
MarkUnfinishedAsInterrupted(st) ==
    [k \in DOMAIN st |->
        IF IsUnfinished(st[k])
        THEN [st[k] EXCEPT !.status = "interrupted",
                           !.ended_at = Some(UtcNow),
                           !.note = Some("Marked interrupted after app restart.")]
        ELSE st[k]]

\* Mutant: __init__ without the call of _mark_unfinished_as_interrupted.
StoreInitWithoutMark(st) == EnsureColumns(st)

\* PortForwardHistoryStore.__init__ on an existing file.
StoreInit(st) == MarkUnfinishedAsInterrupted(EnsureColumns(st))

\* ------------------------------------------------------- runtime registry

\* subprocess.Popen handle of a freshly spawned child.
NewProcess == [alive |-> TRUE, returncode |-> 0, signals |-> <<>>]

\* Mutant: the simulated=True argument dropped, so the field keeps its default.
RuntimeSimulatedDefault(id, instance_id, process, simulated) ==
    [ record_id |-> id, instance_id |-> instance_id, process |-> process,
      simulated |-> FALSE, stopping |-> FALSE ]

\* ActivePortForwardRuntime(record_id, instance_id, process, simulated, stopping)
Runtime(id, instance_id, process, simulated) ==
    [ record_id |-> id, instance_id |-> instance_id, process |-> process,
      simulated |-> simulated, stopping |-> FALSE ]

\* Mutant: the registration is missing.
RegistryPutMissing(reg, id, runtime) == reg

\* active_port_forwards[record_id] = runtime
RegistryPut(reg, id, runtime) ==
    [k \in DOMAIN reg \cup {id} |-> IF k = id THEN runtime ELSE reg[k]]

\* dict.pop(record_id, None)
RegistryPop(reg, id) == [k \in DOMAIN reg \ {id} |-> reg[k]]

\* Mutant: stop_port_forward forgets to remove the entry.
StopPopMissing(reg, id) == reg

\* Mutant: stop_port_forward leaves the entry to the poll and clears its flag.
StopPopClearsFlag(reg, id) == [reg EXCEPT ![id].stopping = FALSE]

\* stop_port_forward: self.active_port_forwards.pop(record_id, None)
StopPop(reg, id) == RegistryPop(reg, id)

\* Mutant: the poll forgets to remove the entry.
PollPopMissing(reg, id) == reg

\* _poll_active_port_forwards: self.active_port_forwards.pop(record_id, None)
PollPop(reg, id) == RegistryPop(reg, id)

\* tuple(self.active_port_forwards): the keys in insertion order, which is the
\* order the identifiers were created in.
KeysInOrder(reg) ==
    LET S == DOMAIN reg
    IN  [i \in 1..Cardinality(S) |-> CHOOSE k \in S : Cardinality({j \in S : j < k}) = i - 1]

\* Popen.poll(): the return code, or None while the child runs.
Poll(process) == IF process.alive THEN None ELSE Some(process.returncode)

\* str(exit_code) inside the notes' f-strings.
ExitText(exit_code) == IF exit_code = None THEN "None" ELSE ToString(exit_code[1])

\* Mutant: only 0 and None count as a clean stop.
StopStatusWithoutSignals(exit_code) ==
    IF exit_code = None \/ exit_code[1] = 0 THEN "stopped" ELSE "failed"

\* Status stop_port_forward gives a real entry.
StopStatus(exit_code) ==
    IF exit_code = None \/ exit_code[1] \in {0, -SIGTERM, -SIGKILL}
    THEN "stopped"
    ELSE "failed"

\* Mutant: the poll takes every exit without a stop request for a failure.
PollStatusNeverCompleted(stopping, exit_code) ==
    IF stopping THEN "stopped" ELSE "failed"

\* Status _poll_active_port_forwards gives an exited entry.
PollStatus(stopping, exit_code) ==
    IF stopping THEN "stopped" ELSE IF exit_code = 0 THEN "completed" ELSE "failed"

\* History: who applied which status update to which record.
Logged(log, id, who, status) ==
    [k \in DOMAIN log \cup {id} |->
        IF k = id
        THEN (IF k \in DOMAIN log THEN log[k] ELSE <<>>) \o << <<who, status>> >>
        ELSE log[k]]

EmptyMap == [k \in {} |-> 0]

\* No handler is running: the event loop may dispatch the next one.
Idle == pc = "idle" /\ ~in_shutdown

\* Summary of the latest handler call and what it returned ("pending": a
\* start_port_forward that has not returned yet).  follows_start: the call is a
\* stop of the record the immediately preceding call, a start, returned;
\* n_before: the number of rows before that start; selected: the history row a
\* start was asked for by action_start_selected (0: none).
Call(op, id, ret) ==
    [op |-> op, id |-> id, ret |-> ret, follows_start |-> FALSE, n_before |-> 0,
     selected |-> 0]

StartCall(id, ret, n_before, selected) ==
    [op |-> "start", id |-> id, ret |-> ret, follows_start |-> FALSE, n_before |-> n_before,
     selected |-> selected]

StopReturn(id, ret) ==
    LET follows == last.op = "start" /\ last.ret = "record" /\ last.id = id
    IN  [op |-> "stop", id |-> id, ret |-> ret, follows_start |-> follows,
         n_before |-> IF follows THEN last.n_before ELSE 0, selected |-> 0]

\* -------------------------------------------------------------------- Init
Init ==
    /\ store = EmptyMap
    /\ active_port_forwards = EmptyMap
    /\ aws_cli_available \in BOOLEAN
    /\ clock = 1
    /\ pc = "idle"
    /\ cur = 0
    /\ in_shutdown = FALSE
    /\ in_finally = FALSE
    /\ exit_in_progress = FALSE
    /\ shutdown_pending = <<>>
    /\ shutdown_ids = <<>>
    /\ step = "init"
    /\ last = Call("init", 0, "none")
    /\ status_writes = EmptyMap

\* ------------------------------------------------------ start_port_forward

\* Branch "not self.aws_cli_available": a simulated entry, no child process.
StartSimulated(selected, instance, remote_port, local_port, forward_name) ==
    /\ Idle
    /\ ~aws_cli_available
    /\ FreshId \in RecordIds
    /\ LET id == FreshId
       IN  /\ store' = StoreCreate(store, id, forward_name, instance.instance_id,
                                   DisplayName(instance), remote_port, local_port,
                                   "simulated-active",
                                   CommandText(instance.instance_id, remote_port, local_port),
                                   Some("AWS CLI unavailable; simulated entry."))
           /\ active_port_forwards' =
                  RegistryPut(active_port_forwards, id,
                              Runtime(id, instance.instance_id, None, TRUE))
           /\ cur' = 0
           /\ last' = StartCall(id, "record", Cardinality(DOMAIN store), selected)
    /\ step' = "StartSimulated"
    /\ UNCHANGED << aws_cli_available, clock, pc, in_shutdown, in_finally, exit_in_progress, shutdown_pending, shutdown_ids,
                    status_writes >>

\* subprocess.Popen raised OSError: the row is inserted with status failed ...
StartSpawnFailed(selected, instance, remote_port, local_port, forward_name) ==
    /\ Idle
    /\ aws_cli_available
    /\ FreshId \in RecordIds
    /\ LET id == FreshId
       IN  /\ store' = StoreCreate(store, id, forward_name, instance.instance_id,
                                   DisplayName(instance), remote_port, local_port,
                                   "failed",
                                   CommandText(instance.instance_id, remote_port, local_port),
                                   Some("Failed to start process: OSError"))
           /\ cur' = id
           /\ last' = StartCall(id, "pending", Cardinality(DOMAIN store), selected)
    /\ pc' = "start_failed"
    /\ step' = "StartSpawnFailed"
    /\ UNCHANGED << active_port_forwards, aws_cli_available, clock, in_shutdown, in_finally, exit_in_progress,
                    shutdown_pending, shutdown_ids, status_writes >>

\* ... and a second statement sets its ended_at; start_port_forward returns None.
StartFailedSetEnded ==
    /\ pc = "start_failed"
    /\ store' = StoreUpdate(store, cur, [ended_at |-> Some(UtcNow)])
    /\ pc' = "idle"
    /\ cur' = 0
    /\ last' = StartCall(cur, "None", last.n_before, last.selected)
    /\ step' = "StartFailedSetEnded"
    /\ UNCHANGED << active_port_forwards, aws_cli_available, clock, in_shutdown, in_finally, exit_in_progress,
                    shutdown_pending, shutdown_ids, status_writes >>

\* subprocess.Popen succeeded: an active row and a registry entry holding the child.
StartSpawned(selected, instance, remote_port, local_port, forward_name) ==
    /\ Idle
    /\ aws_cli_available
    /\ FreshId \in RecordIds
    /\ LET id == FreshId
       IN  /\ store' = StoreCreate(store, id, forward_name, instance.instance_id,
                                   DisplayName(instance), remote_port, local_port,
                                   "active",
                                   CommandText(instance.instance_id, remote_port, local_port),
                                   None)
           /\ active_port_forwards' =
                  RegistryPut(active_port_forwards, id,
                              Runtime(id, instance.instance_id, Some(NewProcess), FALSE))
           /\ cur' = 0
           /\ last' = StartCall(id, "record", Cardinality(DOMAIN store), selected)
    /\ step' = "StartSpawned"
    /\ UNCHANGED << aws_cli_available, clock, pc, in_shutdown, in_finally, exit_in_progress, shutdown_pending, shutdown_ids,
                    status_writes >>

Start ==
    \E r \in StartRequests :
        \/ StartSimulated(0, r.instance, r.remote_port, r.local_port, r.forward_name)
        \/ StartSpawnFailed(0, r.instance, r.remote_port, r.local_port, r.forward_name)
        \/ StartSpawned(0, r.instance, r.remote_port, r.local_port, r.forward_name)

\* ------------------------------------- InstanceInfoScreen.action_start_selected

\* Mutant: only a real active row counts as already active.
AlreadyActiveRealOnly(record) == record.status = "active"

\* record.status in {"active", "simulated-active"}
AlreadyActive(record) == record.status \in {"active", "simulated-active"}

\* The row of self.history_records under the cursor may be older than the store:
\* the list is read at action_refresh, and _poll_active_port_forwards ends rows
\* without refreshing the screen.  A row the poll has ended may thus still read
\* active; nothing else of a row differs from its snapshot.
SnapshotMayBeActive(record) ==
    record.note \in { Some("Process ended (exit=" \o ToString(c) \o ").") :
                        c \in {0, 1, -SIGTERM, -SIGKILL} }

\* action_start_selected on the history row id of the instance the screen shows:
\* refused with a notification when the row reads active, else
\* start_port_forward with the row's ports and name.
StartSelected(id) ==
    /\ Idle
    /\ id \in DOMAIN store
    /\ LET record == store[id]
           instance == CHOOSE i \in Instances : i.instance_id = record.instance_id
       IN  \/ /\ AlreadyActive(record) \/ SnapshotMayBeActive(record)
              /\ last' = [Call("start_selected", id, "refused") EXCEPT !.selected = id]
              /\ step' = "StartSelectedRefused"
              /\ UNCHANGED << store, active_port_forwards, aws_cli_available, clock, pc, cur,
                              in_shutdown, in_finally, exit_in_progress, shutdown_pending, shutdown_ids,
                              status_writes >>
           \/ /\ ~AlreadyActive(record)
              /\ \/ StartSimulated(id, instance, record.remote_port, record.local_port,
                                   record.forward_name)
                 \/ StartSpawnFailed(id, instance, record.remote_port, record.local_port,
                                     record.forward_name)
                 \/ StartSpawned(id, instance, record.remote_port, record.local_port,
                                 record.forward_name)

StartSelectedAny == \E id \in RecordIds : StartSelected(id)

\* ------------------------------------------------------- stop_port_forward

\* Mutant: a stop without process handle always records stopped.
ProcesslessStopStatusPlain(simulated) == "stopped"

\* status = "simulated-stopped" if runtime.simulated else "stopped"
ProcesslessStopStatus(simulated) ==
    IF simulated THEN "simulated-stopped" ELSE "stopped"

\* Mutant: a stop of an identifier without live entry annotates its row.
StopUnknownAnnotates(record_id) ==
    /\ pc' = "idle"
    /\ cur' = 0
    /\ last' = StopReturn(record_id, "False")
    /\ store' = StoreUpdate(store, record_id, [note |-> Some("Stopped by user.")])
    /\ UNCHANGED << active_port_forwards, status_writes >>

\* "if runtime is None or record is None: ... return False".
StopUnknown(record_id) ==
    /\ pc' = "idle"
    /\ cur' = 0
    /\ last' = StopReturn(record_id, "False")
    /\ UNCHANGED << store, active_port_forwards, status_writes >>

\* The body of stop_port_forward up to the point where it either returns or
\* enters _terminate_process.  done(ret) is what the caller sees on return.
StopEnter(record_id) ==
    LET known == record_id \in DOMAIN active_port_forwards /\ record_id \in DOMAIN store
    IN  /\ IF ~known
           THEN StopUnknown(record_id)
           ELSE LET runtime == active_port_forwards[record_id]
                IN  IF runtime.simulated \/ runtime.process = None
                    THEN LET status == ProcesslessStopStatus(runtime.simulated)
                         IN  /\ store' = StoreUpdate(store, record_id,
                                             [ status   |-> status,
                                               ended_at |-> Some(UtcNow),
                                               note     |-> Some("Stopped by user.") ])
                             /\ status_writes' = Logged(status_writes, record_id, "stop", status)
                             /\ active_port_forwards' = StopPop(active_port_forwards, record_id)
                             /\ pc' = "idle"
                             /\ cur' = 0
                             /\ last' = StopReturn(record_id, "True")
                    ELSE \* runtime.stopping = True, then _terminate_process
                         /\ active_port_forwards' =
                                [active_port_forwards EXCEPT ![record_id].stopping = TRUE]
                         /\ pc' = "terminate"
                         /\ cur' = record_id
                         /\ UNCHANGED << store, last, status_writes >>

\* stop_port_forward(record_id) called from the user interface.
StopCall(record_id) ==
    /\ Idle
    /\ StopEnter(record_id)
    /\ step' = "StopCall"
    /\ UNCHANGED << aws_cli_available, clock, in_shutdown, in_finally, exit_in_progress, shutdown_pending, shutdown_ids >>

Stop == \E record_id \in RecordIds : StopCall(record_id)

CurProcess == active_port_forwards[cur].process[1]

SetCurProcess(process) ==
    [active_port_forwards EXCEPT ![cur].process = Some(process)]

\* _terminate_process without its first line: SIGTERM goes out whatever poll says.
TerminateBeginAlwaysSignals ==
    /\ pc = "terminate"
    /\ active_port_forwards' =
           SetCurProcess([CurProcess EXCEPT !.signals = Append(@, "SIGTERM")])
    /\ pc' = "wait_term"
    /\ step' = "TerminateBegin"
    /\ UNCHANGED << store, aws_cli_available, clock, cur, in_shutdown, in_finally, exit_in_progress, shutdown_pending, shutdown_ids,
                    last, status_writes >>

\* _terminate_process: "if process.poll() is not None: return", else SIGTERM is
\* delivered (os.killpg, or process.terminate() when killpg raises OSError).
TerminateBegin ==
    /\ pc = "terminate"
    /\ IF Poll(CurProcess) # None
       THEN /\ pc' = "finalize"
            /\ UNCHANGED active_port_forwards
       ELSE /\ active_port_forwards' =
                   SetCurProcess([CurProcess EXCEPT !.signals = Append(@, "SIGTERM")])
            /\ pc' = "wait_term"
    /\ step' = "TerminateBegin"
    /\ UNCHANGED << store, aws_cli_available, clock, cur, in_shutdown, in_finally, exit_in_progress, shutdown_pending, shutdown_ids,
                    last, status_writes >>

\* process.wait(timeout=3) returns: the child exited within the grace period.
WaitTermExited ==
    /\ pc = "wait_term"
    /\ ~CurProcess.alive
    /\ pc' = "finalize"
    /\ step' = "WaitTermExited"
    /\ UNCHANGED << store, active_port_forwards, aws_cli_available, clock, cur,
                    in_shutdown, in_finally, exit_in_progress, shutdown_pending, shutdown_ids, last, status_writes >>

\* process.wait(timeout=3) raises TimeoutExpired: SIGKILL follows (os.killpg, or
\* process.kill() when killpg raises OSError).
WaitTermTimeout ==
    /\ pc = "wait_term"
    /\ CurProcess.alive
    /\ active_port_forwards' =
           SetCurProcess([CurProcess EXCEPT !.signals = Append(@, "SIGKILL")])
    /\ pc' = "wait_kill"
    /\ step' = "WaitTermTimeout"
    /\ UNCHANGED << store, aws_cli_available, clock, cur, in_shutdown, in_finally, exit_in_progress, shutdown_pending, shutdown_ids,
                    last, status_writes >>

\* A protocol that goes back to waiting after the post-kill wait has timed out.
WaitKillRetry ==
    /\ pc = "wait_kill"
    /\ pc' = IF CurProcess.alive THEN "wait_term" ELSE "finalize"
    /\ step' = "WaitKillDone"
    /\ UNCHANGED << store, active_port_forwards, aws_cli_available, clock, cur,
                    in_shutdown, in_finally, exit_in_progress, shutdown_pending, shutdown_ids, last, status_writes >>

\* process.wait(timeout=2) returns or times out; either way _terminate_process ends.
WaitKillDone ==
    /\ pc = "wait_kill"
    /\ pc' = "finalize"
    /\ step' = "WaitKillDone"
    /\ UNCHANGED << store, active_port_forwards, aws_cli_available, clock, cur,
                    in_shutdown, in_finally, exit_in_progress, shutdown_pending, shutdown_ids, last, status_writes >>

\* After _terminate_process: poll, update the row, drop the entry, return True.
StopFinalize ==
    /\ pc = "finalize"
    /\ LET exit_code == Poll(CurProcess)
           status == StopStatus(exit_code)
       IN  /\ store' = StoreUpdate(store, cur,
                           [ status   |-> status,
                             ended_at |-> Some(UtcNow),
                             note     |-> Some("Stopped by user (exit="
                                               \o ExitText(exit_code) \o ").") ])
           /\ status_writes' = Logged(status_writes, cur, "stop", status)
    /\ active_port_forwards' = StopPop(active_port_forwards, cur)
    /\ pc' = "idle"
    /\ cur' = 0
    /\ last' = StopReturn(cur, "True")
    /\ step' = "StopFinalize"
    /\ UNCHANGED << aws_cli_available, clock, in_shutdown, in_finally, exit_in_progress, shutdown_pending, shutdown_ids >>

\* ------------------------------------------- shutdown_active_port_forwards

\* Mutant: the loop skips the first identifier of its snapshot.
ShutdownCallSkipsFirst ==
    /\ Idle
    /\ in_shutdown' = TRUE
    /\ UNCHANGED << in_finally, exit_in_progress >>
    /\ shutdown_ids' = KeysInOrder(active_port_forwards)
    /\ shutdown_pending' = IF shutdown_ids' = <<>> THEN <<>> ELSE Tail(shutdown_ids')
    /\ step' = "ShutdownCall"
    /\ UNCHANGED << store, active_port_forwards, aws_cli_available, clock, pc, cur, last,
                    status_writes >>

\* "for record_id in tuple(self.active_port_forwards)": the snapshot is taken.
ShutdownCall ==
    /\ Idle
    /\ in_shutdown' = TRUE
    /\ UNCHANGED << in_finally, exit_in_progress >>
    /\ shutdown_pending' = KeysInOrder(active_port_forwards)
    /\ shutdown_ids' = shutdown_pending'
    /\ step' = "ShutdownCall"
    /\ UNCHANGED << store, active_port_forwards, aws_cli_available, clock, pc, cur, last,
                    status_writes >>

\* One iteration of the loop: stop_port_forward(record_id, emit_ui=emit_ui).
ShutdownNext ==
    /\ in_shutdown
    /\ pc = "idle"
    /\ shutdown_pending # <<>>
    /\ StopEnter(Head(shutdown_pending))
    /\ shutdown_pending' = Tail(shutdown_pending)
    /\ UNCHANGED shutdown_ids
    /\ step' = "ShutdownNext"
    /\ UNCHANGED << aws_cli_available, clock, in_shutdown, in_finally, exit_in_progress >>

\* The loop is exhausted: shutdown_active_port_forwards returns.
ShutdownReturn ==
    /\ in_shutdown
    /\ pc = "idle"
    /\ shutdown_pending = <<>>
    /\ in_shutdown' = FALSE
    /\ pc' = IF in_finally THEN "exited"
              ELSE IF exit_in_progress THEN "run_returned"   \* self.exit() of _on_quit_confirmation
              ELSE pc
    /\ last' = Call("shutdown", 0, "none")
    /\ step' = "ShutdownReturn"
    /\ UNCHANGED << store, active_port_forwards, aws_cli_available, clock, cur, in_finally, exit_in_progress,
                    shutdown_pending, shutdown_ids, status_writes >>

\* ---------------------------------------------- _poll_active_port_forwards

\* Mutant: the poll acts on a clean exit only.
ReconcilableCleanExitOnly(runtime) ==
    /\ ~(runtime.simulated \/ runtime.process = None)
    /\ Poll(runtime.process[1]) = Some(0)

\* An entry the poll acts on: real, and its child has exited.
Reconcilable(runtime) ==
    /\ ~(runtime.simulated \/ runtime.process = None)
    /\ Poll(runtime.process[1]) # None

\* The row the poll writes for one exited entry.
PollUpdate(st, id, runtime) ==
    LET exit_code == Poll(runtime.process[1])
    IN  StoreUpdate(st, id,
            [ status   |-> PollStatus(runtime.stopping, exit_code[1]),
              ended_at |-> Some(UtcNow),
              note     |-> Some("Process ended (exit=" \o ExitText(exit_code) \o ").") ])

RECURSIVE PollEntries(_, _, _, _)
\* The loop over tuple(self.active_port_forwards.items()): <<store, registry, log>>.
PollEntries(items, st, reg, log) ==
    IF items = <<>>
    THEN <<st, reg, log>>
    ELSE LET id == Head(items)
             runtime == reg[id]
         IN  IF Reconcilable(runtime)
             THEN PollEntries(Tail(items),
                              PollUpdate(st, id, runtime),
                              PollPop(reg, id),
                              Logged(log, id, "poll",
                                     PollStatus(runtime.stopping,
                                                Poll(runtime.process[1])[1])))
             ELSE PollEntries(Tail(items), st, reg, log)

\* Mutant: the timer callback runs on a thread of its own, whatever a handler
\* of the event loop is doing.
PollTickAnytime ==
    /\ LET out == PollEntries(KeysInOrder(active_port_forwards), store,
                              active_port_forwards, status_writes)
       IN  /\ store' = out[1]
           /\ active_port_forwards' = out[2]
           /\ status_writes' = out[3]
    /\ last' = Call("poll", 0, "none")
    /\ step' = "PollTick"
    /\ UNCHANGED << aws_cli_available, clock, pc, cur, in_shutdown, in_finally, exit_in_progress, shutdown_pending, shutdown_ids >>

\* Mutant: the poll takes a simulated entry for a process that has completed.
PollTickEndsSimulated ==
    /\ Idle
    /\ LET out == PollEntries(KeysInOrder(active_port_forwards), store,
                              active_port_forwards, status_writes)
           sim == {k \in DOMAIN out[2] : out[2][k].simulated}
       IN  /\ store' = [k \in DOMAIN out[1] |->
                          IF k \in sim
                          THEN [out[1][k] EXCEPT !.status = "completed",
                                                 !.ended_at = Some(UtcNow)]
                          ELSE out[1][k]]
           /\ active_port_forwards' = [k \in DOMAIN out[2] \ sim |-> out[2][k]]
           /\ status_writes' = out[3]
    /\ last' = Call("poll", 0, "none")
    /\ step' = "PollTick"
    /\ UNCHANGED << aws_cli_available, clock, pc, cur, in_shutdown, in_finally, exit_in_progress, shutdown_pending, shutdown_ids >>

\* One firing of set_interval(1.0, self._poll_active_port_forwards).
PollTick ==
    /\ Idle
    /\ LET out == PollEntries(KeysInOrder(active_port_forwards), store,
                              active_port_forwards, status_writes)
       IN  /\ store' = out[1]
           /\ active_port_forwards' = out[2]
           /\ status_writes' = out[3]
    /\ last' = Call("poll", 0, "none")
    /\ step' = "PollTick"
    /\ UNCHANGED << aws_cli_available, clock, pc, cur, in_shutdown, in_finally, exit_in_progress, shutdown_pending, shutdown_ids >>

\* ------------------------------------------------------------- environment

\* A supervised child process ends, with any exit code.
ProcessExits ==
    /\ \E id \in DOMAIN active_port_forwards :
          /\ active_port_forwards[id].process # None
          /\ active_port_forwards[id].process[1].alive
          /\ \E code \in ExitCodes(active_port_forwards[id].process[1]) :
             active_port_forwards' =
                 [active_port_forwards EXCEPT
                     ![id].process = Some([@[1] EXCEPT !.alive = FALSE, !.returncode = code])]
    /\ step' = "env"
    /\ UNCHANGED << store, aws_cli_available, clock, pc, cur, in_shutdown, in_finally, exit_in_progress,
                    shutdown_pending, shutdown_ids, last, status_writes >>

\* A second passes on the wall clock.
ClockTick ==
    /\ clock < MaxClock
    /\ clock' = clock + 1
    /\ step' = "env"
    /\ UNCHANGED << store, active_port_forwards, aws_cli_available, pc, cur, in_shutdown, in_finally, exit_in_progress,
                    shutdown_pending, shutdown_ids, last, status_writes >>

\* The supervising process dies, wherever it is, and the application is started
\* again: AwsTuiApp.__init__ probes the CLI, opens the store, empties the registry.
Restart ==
    /\ store' = StoreInit(store)
    /\ status_writes' =
           [k \in DOMAIN store |->
               IF IsUnfinished(store[k])
               THEN (IF k \in DOMAIN status_writes THEN status_writes[k] ELSE <<>>)
                    \o << <<"init", "interrupted">> >>
               ELSE IF k \in DOMAIN status_writes THEN status_writes[k] ELSE <<>>]
    /\ active_port_forwards' = EmptyMap
    /\ aws_cli_available' \in BOOLEAN
    /\ pc' = "idle"
    /\ cur' = 0
    /\ in_shutdown' = FALSE
    /\ in_finally' = FALSE
    /\ exit_in_progress' = FALSE
    /\ shutdown_pending' = <<>>
    /\ shutdown_ids' = <<>>
    /\ last' = Call("init", 0, "none")
    /\ step' = "Restart"
    /\ UNCHANGED clock

\* -------------------------------------------------------- specification
Next ==
    \/ Start
    \/ StartSelectedAny
    \/ StartFailedSetEnded
    \/ Stop
    \/ TerminateBegin
    \/ WaitTermExited
    \/ WaitTermTimeout
    \/ WaitKillDone
    \/ StopFinalize
    \/ ShutdownCall
    \/ ShutdownNext
    \/ ShutdownReturn
    \/ PollTick
    \/ ProcessExits
    \/ ClockTick
    \/ Restart

Spec == Init /\ [][Next]_vars

\* Every wait of the termination protocol is bounded (timeout=3, timeout=2) and
\* the statements between the waits do not block, so a Stop that has begun takes
\* each of its steps in the end, unless the application dies first.
StopFairness ==
    /\ WF_vars(TerminateBegin)
    /\ WF_vars(WaitTermExited)
    /\ WF_vars(WaitTermTimeout)
    /\ WF_vars(WaitKillDone)
    /\ WF_vars(StopFinalize)

SpecFair == Spec /\ StopFairness

\* Every handler of the event loop runs to its end, and the timer set by
\* set_interval(1.0, self._poll_active_port_forwards) fires again and again:
\* whenever the loop is free of a handler infinitely often, a tick runs.
HandlerFairness ==
    /\ StopFairness
    /\ WF_vars(StartFailedSetEnded)
    /\ WF_vars(ShutdownNext)
    /\ WF_vars(ShutdownReturn)

PollFairness == SF_vars(PollTick)

\* The supervision of forwards started from the dialog, wall-clock time left out.
NextSupervise ==
    \/ Start
    \/ StartFailedSetEnded
    \/ Stop
    \/ TerminateBegin
    \/ WaitTermExited
    \/ WaitTermTimeout
    \/ WaitKillDone
    \/ StopFinalize
    \/ ShutdownCall
    \/ ShutdownNext
    \/ ShutdownReturn
    \/ PollTick
    \/ ProcessExits
    \/ Restart

SpecPollFair == Init /\ [][NextSupervise]_vars /\ HandlerFairness /\ PollFairness

\* Another process constructs PortForwardHistoryStore on the same history file
\* (a second copy of the application is started) while this one keeps running:
\* its __init__ runs on the shared table, this process's registry is untouched.
SecondInstanceOpens ==
    /\ store' = StoreInit(store)
    /\ status_writes' =
           [k \in DOMAIN store |->
               IF IsUnfinished(store[k])
               THEN (IF k \in DOMAIN status_writes THEN status_writes[k] ELSE <<>>)
                    \o << <<"init", "interrupted">> >>
               ELSE IF k \in DOMAIN status_writes THEN status_writes[k] ELSE <<>>]
    /\ last' = Call("init", 0, "none")
    /\ step' = "SecondOpen"
    /\ UNCHANGED << active_port_forwards, aws_cli_available, clock, pc, cur, in_shutdown,
                    in_finally, exit_in_progress, shutdown_pending, shutdown_ids >>

NextShared ==
    \/ NextSupervise
    \/ SecondInstanceOpens

SpecShared == Init /\ [][NextShared]_vars

\* ------------------------------------------------ storage errors in Stop

\* self.history_store.update(...) of stop_port_forward raises (sqlite3 reports the
\* database locked, full or unreadable).  Nothing catches it in stop_port_forward
\* or in shutdown_active_port_forwards: the row is not written, the entry is not
\* popped, the loop over the snapshot, if one is running, is left, and the
\* exception reaches whoever called the handler.
StopUpdateRaises ==
    /\ pc = "finalize"
    /\ pc' = "raised"
    /\ cur' = 0
    /\ in_shutdown' = FALSE
    /\ shutdown_pending' = <<>>
    /\ last' = Call("stop", cur, "raised")
    /\ step' = "StopUpdateRaises"
    /\ UNCHANGED << store, active_port_forwards, aws_cli_available, clock, in_finally, exit_in_progress,
                    shutdown_ids, status_writes >>

\* A main whose "finally" block would return without calling
\* shutdown_active_port_forwards.
FinallyWithoutShutdown ==
    /\ pc \in {"raised", "run_returned"}
    /\ ~in_finally
    /\ in_finally' = TRUE
    /\ pc' = "exited"
    /\ step' = "FinallyShutdownCall"
    /\ UNCHANGED << store, active_port_forwards, aws_cli_available, clock, cur, in_shutdown,
                    exit_in_progress, shutdown_pending, shutdown_ids, last, status_writes >>

\* app.run() has ended, by an exception out of a handler, by self.exit() or by
\* KeyboardInterrupt; main's "finally" calls
\* app.shutdown_active_port_forwards(emit_ui=False) once more.  An exception out
\* of that call ends the process.
FinallyShutdownCall ==
    /\ pc \in {"raised", "run_returned"}
    /\ ~in_finally
    /\ in_finally' = TRUE
    /\ UNCHANGED exit_in_progress
    /\ in_shutdown' = TRUE
    /\ shutdown_pending' = KeysInOrder(active_port_forwards)
    /\ shutdown_ids' = shutdown_pending'
    /\ pc' = "idle"
    /\ step' = "FinallyShutdownCall"
    /\ UNCHANGED << store, active_port_forwards, aws_cli_available, clock, cur, last,
                    status_writes >>

NextFault ==
    \/ Start
    \/ StartSelectedAny
    \/ StartFailedSetEnded
    \/ Stop
    \/ TerminateBegin
    \/ WaitTermExited
    \/ WaitTermTimeout
    \/ WaitKillDone
    \/ StopFinalize
    \/ StopUpdateRaises
    \/ FinallyShutdownCall
    \/ ShutdownCall
    \/ ShutdownNext
    \/ ShutdownReturn
    \/ PollTick
    \/ ProcessExits
    \/ ClockTick
    \/ Restart

SpecFault == Init /\ [][NextFault]_vars

\* ------------------------------------------ the history store on its own

\* _coerce_forward_name
CoerceForwardName(value, local_port, remote_port) ==
    IF Strip(value) # <<>> THEN Strip(value) ELSE DefaultForwardName(local_port, remote_port)

\* PortForwardHistoryStore._record_from_row: the record a read hands out.
RecordFromRow(row) ==
    [row EXCEPT !.forward_name = CoerceForwardName(row.forward_name, row.local_port,
                                                   row.remote_port),
                !.note = IF row.note = Some("") THEN None ELSE row.note]

\* PortForwardHistoryStore.get
StoreGet(st, id) == IF id \in DOMAIN st THEN Some(RecordFromRow(st[id])) ELSE None

\* Mutant: the listing without its WHERE clause.
ListedIdsAll(st, instance_id) == DOMAIN st

\* "WHERE instance_id = ?"
ListedIds(st, instance_id) == {id \in DOMAIN st : st[id].instance_id = instance_id}

\* "ORDER BY started_at DESC": rows of equal started_at come in any order.
OrderedByStartedAtDesc(st, ids) ==
    { q \in [1..Cardinality(ids) -> ids] :
         /\ \A i \in DOMAIN q, j \in DOMAIN q : i # j => q[i] # q[j]
         /\ \A i \in DOMAIN q, j \in DOMAIN q :
               i < j => st[q[i]].started_at >= st[q[j]].started_at }

\* PortForwardHistoryStore.list_for_instance: the results the query may give,
\* each the sequence of the records read.
ListForInstance(st, instance_id) ==
    { [i \in DOMAIN q |-> RecordFromRow(st[q[i]])] :
         q \in OrderedByStartedAtDesc(st, ListedIds(st, instance_id)) }

\* Arguments of create tried: a blank name, a padded one, an empty one.
CreateRequests ==
    { [forward_name |-> << " " >>, instance_id |-> "T1", instance_name |-> "bastion",
       remote_port |-> 80, local_port |-> 8080, status |-> "active"],
      [forward_name |-> << " ", "d", "b", " " >>, instance_id |-> "T2",
       instance_name |-> "T2", remote_port |-> 5432, local_port |-> 15432,
       status |-> "failed"],
      [forward_name |-> << >>, instance_id |-> "T1", instance_name |-> "bastion",
       remote_port |-> 443, local_port |-> 8443, status |-> "simulated-active"] }

\* Keyword arguments of update tried: status and ended_at; a padded name with a
\* keyword that is no column; none at all; and one that names the identifier.
UpdateRequests == {"finish", "rename", "nothing", "identify"}

\* Updates of the forward name alone: padded, spaces only, a tab only.
RenameRequests == {"rename", "blank", "tab"}

UpdateRequest(name) ==
    CASE name = "finish" -> [status |-> "stopped", ended_at |-> Some(UtcNow)]
      [] name = "rename" -> [forward_name |-> << " ", "x" >>, bogus |-> 1]
      [] name = "blank" -> [forward_name |-> << " ", " " >>]
      [] name = "tab" -> [forward_name |-> << "\t" >>]
      [] name = "nothing" -> EmptyMap
      [] name = "identify" -> [record_id |-> 0, status |-> "stopped"]

\* Identifiers update is called with; 0 is never a row.
UpdateIds == 0..MaxRows

\* "def update(self, record_id: str, **changes)": a keyword record_id collides
\* with the positional parameter and the call raises TypeError before the body.
KeywordsBind(changes) == "record_id" \notin DOMAIN changes

\* history_store.create(...) called directly, while the table has fewer than max rows.
StoreCreateUpTo(max) ==
    /\ FreshId <= max
    /\ \E rq \in CreateRequests :
          /\ store' = StoreCreate(store, FreshId, rq.forward_name, rq.instance_id,
                                  rq.instance_name, rq.remote_port, rq.local_port,
                                  rq.status, "aws", None)
          /\ last' = [op |-> "create", id |-> FreshId, request |-> rq,
                      ret |-> Some(store'[FreshId])]
    /\ step' = "StoreCreateCall"
    /\ UNCHANGED << active_port_forwards, aws_cli_available, clock, pc, cur, in_shutdown,
                    in_finally, exit_in_progress, shutdown_pending, shutdown_ids, status_writes >>

StoreCreateCall == StoreCreateUpTo(MaxRows)

\* history_store.update(record_id, **changes) called directly, with one of the
\* requests named.
StoreUpdateWith(names) ==
    /\ \E id \in UpdateIds, name \in names :
          IF ~KeywordsBind(UpdateRequest(name))
          THEN /\ store' = store
               /\ last' = [op |-> "update", id |-> id, request |-> name,
                           ret |-> None, raised |-> TRUE]
          ELSE /\ store' = StoreUpdate(store, id, UpdateRequest(name))
               /\ last' = [op |-> "update", id |-> id, request |-> name,
                           ret |-> StoreGet(store', id), raised |-> FALSE]
    /\ step' = "StoreUpdateCall"
    /\ UNCHANGED << active_port_forwards, aws_cli_available, clock, pc, cur, in_shutdown,
                    in_finally, exit_in_progress, shutdown_pending, shutdown_ids, status_writes >>

StoreUpdateCall == StoreUpdateWith(UpdateRequests)

StoreRenameCall == StoreUpdateWith(RenameRequests)

\* history_store.list_for_instance(instance_id) called directly.
StoreListCall ==
    /\ \E instance_id \in {"T1", "T2", "T3"} :
          \E result \in ListForInstance(store, instance_id) :
             last' = [op |-> "list", id |-> 0, request |-> instance_id, ret |-> result]
    /\ step' = "StoreListCall"
    /\ UNCHANGED << store, active_port_forwards, aws_cli_available, clock, pc, cur,
                    in_shutdown, in_finally, exit_in_progress, shutdown_pending, shutdown_ids,
                    status_writes >>

\* PortForwardHistoryStore(path) constructed again on the same file.
StoreReopen ==
    /\ store' = StoreInit(store)
    /\ last' = Call("init", 0, "none")
    /\ step' = "StoreReopen"
    /\ UNCHANGED << active_port_forwards, aws_cli_available, clock, pc, cur, in_shutdown,
                    in_finally, exit_in_progress, shutdown_pending, shutdown_ids, status_writes >>

\* A second passes on the wall clock.
StoreClockTick ==
    /\ clock < MaxStoreClock
    /\ clock' = clock + 1
    /\ step' = "env"
    /\ UNCHANGED << store, active_port_forwards, aws_cli_available, pc, cur, in_shutdown,
                    in_finally, exit_in_progress, shutdown_pending, shutdown_ids, last, status_writes >>

NextStore ==
    \/ StoreCreateCall
    \/ StoreUpdateCall
    \/ StoreReopen
    \/ StoreClockTick

\* The store of a process that found the AWS CLI; the probe plays no part here.
StoreOnlyInit == Init /\ aws_cli_available

SpecStore == StoreOnlyInit /\ [][NextStore]_vars

ListingCreateCall == StoreCreateUpTo(MaxListed)

NextListing ==
    \/ ListingCreateCall
    \/ StoreListCall
    \/ StoreClockTick

SpecListing == StoreOnlyInit /\ [][NextListing]_vars

\* Names written, the file opened again, and the rows read.
NextBackfill ==
    \/ StoreCreateCall
    \/ StoreRenameCall
    \/ StoreReopen
    \/ StoreListCall

SpecBackfill == StoreOnlyInit /\ [][NextBackfill]_vars

\* The active projections of the application (what action_refresh shows).

\* Mutant: the test of runtime.instance_id is missing.
SupervisedIdsAnyInstance(reg, st, instance_ids) ==
    {k \in DOMAIN reg : reg[k].record_id \in DOMAIN st}

\* "for runtime in self.active_port_forwards.values()": the entries kept, those
\* of the wanted targets whose history_store.get is not None.
SupervisedIds(reg, st, instance_ids) ==
    {k \in DOMAIN reg : reg[k].instance_id \in instance_ids /\ reg[k].record_id \in DOMAIN st}

\* records.sort(key=started_at, reverse=True): a stable sort, entries of equal
\* started_at stay in registry order (the order of their identifiers).
SortsBefore(reg, st, a, b) ==
    \/ st[reg[a].record_id].started_at > st[reg[b].record_id].started_at
    \/ st[reg[a].record_id].started_at = st[reg[b].record_id].started_at /\ a < b

SortedRecords(reg, st, ids) ==
    LET q == CHOOSE q \in [1..Cardinality(ids) -> ids] :
                /\ \A i \in DOMAIN q, j \in DOMAIN q : i # j => q[i] # q[j]
                /\ \A i \in DOMAIN q, j \in DOMAIN q :
                      i < j => SortsBefore(reg, st, q[i], q[j])
    IN  [i \in DOMAIN q |-> RecordFromRow(st[reg[q[i]].record_id])]

\* AwsTuiApp.get_active_forwards_for_instance(instance_id)
GetActiveForwardsForInstance(instance_id) ==
    SortedRecords(active_port_forwards, store,
                  SupervisedIds(active_port_forwards, store, {instance_id}))

\* AwsTuiApp.get_all_active_forwards()
GetAllActiveForwards ==
    SortedRecords(active_port_forwards, store,
                  SupervisedIds(active_port_forwards, store,
                                {active_port_forwards[k].instance_id : k \in DOMAIN active_port_forwards}))

\* The new-forward dialog (PortForwardScreen) and the starts that follow it.

MAX_PORT == 65535

\* int(value) for what the user typed into a port field, already stripped: the
\* numerals tried, ValueError (None) for any other text.
IntOfText(value) ==
    CASE value = "-1" -> Some(-1)
      [] value = "0" -> Some(0)
      [] value = "1" -> Some(1)
      [] value = "65535" -> Some(65535)
      [] value = "65536" -> Some(65536)
      [] OTHER -> None

\* Mutant: _parse_port without its range test.
ParsePortAnyNumber(value) == IntOfText(value)

\* _parse_port
ParsePort(value) ==
    IF IntOfText(value) = None
    THEN None
    ELSE IF IntOfText(value)[1] < 1 \/ IntOfText(value)[1] > MAX_PORT
         THEN None
         ELSE IntOfText(value)

\* What the dialog is submitted with: the two ends of the range in both fields,
\* each neighbour outside the range, a negative number, no numeral, an empty
\* field, and a name of blanks only.
DialogRequests ==
    { [name_text |-> << " ", "w" >>, remote_text |-> "65535", local_text |-> "1"],
      [name_text |-> << " ", "w" >>, remote_text |-> "1", local_text |-> "65535"],
      [name_text |-> << " ", "w" >>, remote_text |-> "65536", local_text |-> "1"],
      [name_text |-> << " ", "w" >>, remote_text |-> "1", local_text |-> "0"],
      [name_text |-> << " ", "w" >>, remote_text |-> "-1", local_text |-> "65535"],
      [name_text |-> << " ", "w" >>, remote_text |-> "abc", local_text |-> "1"],
      [name_text |-> << " ", "w" >>, remote_text |-> "1", local_text |-> ""],
      [name_text |-> << " " >>, remote_text |-> "1", local_text |-> "1"] }

\* PortForwardScreen.on_button_pressed on the start button, then, when the
\* dialog is dismissed with a mapping, _on_port_forward_dismissed.
DialogSubmit(instance, name_text, remote_text, local_text) ==
    LET forward_name == Strip(name_text)
        remote_port == ParsePort(remote_text)
        local_port == ParsePort(local_text)
    IN  IF forward_name = <<>> \/ remote_port = None \/ local_port = None
        THEN /\ Idle
             /\ last' = [op |-> "dialog", id |-> 0, ret |-> "rejected", selected |-> 0,
                         name_text |-> name_text, remote_text |-> remote_text,
                         local_text |-> local_text]
             /\ step' = "DialogRejected"
             /\ UNCHANGED << store, active_port_forwards, aws_cli_available, clock, pc, cur,
                             in_shutdown, in_finally, exit_in_progress, shutdown_pending, shutdown_ids,
                             status_writes >>
        ELSE \/ StartSimulated(0, instance, remote_port[1], local_port[1], forward_name)
             \/ StartSpawnFailed(0, instance, remote_port[1], local_port[1], forward_name)
             \/ StartSpawned(0, instance, remote_port[1], local_port[1], forward_name)

DialogSubmitAny ==
    \E instance \in Instances, rq \in DialogRequests :
        DialogSubmit(instance, rq.name_text, rq.remote_text, rq.local_text)

\* Every way a forward is started, with the ways a row ends without a Stop.
NextDialog ==
    \/ DialogSubmitAny
    \/ StartFailedSetEnded
    \/ StartSelectedAny
    \/ PollTick
    \/ ProcessExits
    \/ Restart

SpecDialog == Init /\ [][NextDialog]_vars

\* ------------------------------------------------------------------ claims

\* Who wrote status updates to record id, in order.
WritesOf(id) == IF id \in DOMAIN status_writes THEN status_writes[id] ELSE <<>>

WrittenBy(id, who) == \E i \in DOMAIN WritesOf(id) : WritesOf(id)[i][1] = who

AllowedEdge(a, b) ==
    \/ a = "active" /\ b \in {"stopped", "completed", "failed", "interrupted"}
    \/ a = "simulated-active" /\ b \in {"simulated-stopped", "interrupted"}

\* C1: a record's status changes only along active -> {stopped, completed,
\* failed, interrupted} and simulated-active -> {simulated-stopped, interrupted};
\* no step of Start, Stop, ShutdownAll, the poll or store initialization changes a
\* status in any other way, so a terminal status never changes.
C1_StatusEdges ==
    [][\A id \in DOMAIN store :
          /\ id \in DOMAIN store'
          /\ store'[id].status # store[id].status
                => AllowedEdge(store[id].status, store'[id].status)]_vars

C1_Witness ==
    \E a \in DOMAIN store, b \in DOMAIN store :
        /\ store[a].status = "stopped" /\ WrittenBy(a, "stop")
        /\ store[b].status = "interrupted" /\ WrittenBy(b, "init")

\* C2: every identifier in the Runtime Registry has its one row in the History
\* Store, and that row's status is active or simulated-active.
C2_RegistryInvariant ==
    \A id \in DOMAIN active_port_forwards :
        /\ active_port_forwards[id].record_id = id
        /\ id \in DOMAIN store
        /\ store[id].record_id = id
        /\ store[id].status \in ACTIVE_STATUSES

C2_Witness ==
    /\ Cardinality(DOMAIN active_port_forwards) = 2
    /\ pc = "finalize"
    /\ \E id \in DOMAIN active_port_forwards : ~active_port_forwards[id].process[1].alive

\* C3: Stop and the reconciliation poll never both apply a status update to the
\* same record: once one of them has made it terminal, neither updates it again.
C3_OneTerminalWriter ==
    \A id \in DOMAIN status_writes :
        Cardinality({i \in DOMAIN status_writes[id] :
                        status_writes[id][i][1] \in {"stop", "poll"}}) <= 1

C3_Witness ==
    /\ step = "PollTick"
    /\ \E a \in DOMAIN store, b \in DOMAIN store :
          /\ WrittenBy(a, "stop") /\ ~store[a].status = "simulated-stopped"
          /\ WrittenBy(b, "poll")

\* Stop has set the stop-requested flag on the entry of record id.
StopFlagged(id) ==
    \/ id \in DOMAIN active_port_forwards /\ active_port_forwards[id].stopping
    \/ WrittenBy(id, "stop")

\* C4: a record whose entry Stop has flagged is never given status completed by
\* the poll, and a stopped status is never replaced by completed.
C4_NoCompletedAfterStop ==
    \A id \in DOMAIN store :
        StopFlagged(id) =>
            /\ store[id].status # "completed"
            /\ \A i \in DOMAIN WritesOf(id) : WritesOf(id)[i] # <<"poll", "completed">>

\* Stop flagged the entry, the child exited with code 0, and then the poll ran.
C4_Witness ==
    /\ step = "PollTick"
    /\ \E id \in DOMAIN store :
          /\ WritesOf(id) = << <<"stop", "stopped">> >>
          /\ store[id].status = "stopped"
          /\ store[id].note = Some("Stopped by user (exit=0).")

\* The latest call is a Stop of the record the call before it, a Start, returned.
StopRightAfterStart == last.op = "stop" /\ last.follows_start

\* C5 as stated: Start followed immediately by Stop yields exactly one new record,
\* with final status stopped or simulated-stopped and ended_at >= started_at.
C5_Original ==
    StopRightAfterStart =>
        /\ last.ret = "True"
        /\ Cardinality(DOMAIN store) = last.n_before + 1
        /\ store[last.id].status \in {"stopped", "simulated-stopped"}
        /\ store[last.id].ended_at # None
        /\ store[last.id].ended_at[1] >= store[last.id].started_at

\* C5 amended: Start followed immediately by Stop yields exactly one new record
\* with ended_at >= started_at, whose final status is simulated-stopped or stopped,
\* or failed when the child was found to have exited with a code that is neither 0
\* nor the negative of SIGTERM or SIGKILL.
C5_Amended ==
    StopRightAfterStart =>
        /\ last.ret = "True"
        /\ Cardinality(DOMAIN store) = last.n_before + 1
        /\ store[last.id].status \in {"stopped", "simulated-stopped", "failed"}
        /\ store[last.id].status = "failed"
              => store[last.id].note = Some("Stopped by user (exit=1).")
        /\ store[last.id].ended_at # None
        /\ store[last.id].ended_at[1] >= store[last.id].started_at

C5_Witness ==
    /\ StopRightAfterStart
    /\ step = "StopFinalize"
    /\ store[last.id].status = "failed"

\* The step taken is a call of stop_port_forward(id).
StopCalledOn(id) ==
    /\ step' \in {"StopCall", "ShutdownNext"}
    /\ \/ cur' = id
       \/ cur' = 0 /\ last'.op = "stop" /\ last'.id = id

\* C6: once a Stop of an identifier has returned True, a later Stop of the same
\* identifier returns False and changes neither the rows nor the registry.
C6_StopIdempotent ==
    [][\A id \in RecordIds :
          (WrittenBy(id, "stop") /\ StopCalledOn(id))
             => /\ last'.ret = "False"
                /\ pc' = "idle"
                /\ store' = store
                /\ active_port_forwards' = active_port_forwards]_vars

C6_Witness ==
    /\ step = "StopCall"
    /\ last.op = "stop" /\ last.ret = "False"
    /\ WrittenBy(last.id, "stop")
    /\ DOMAIN active_port_forwards # {}

\* C7: a record that is active or simulated-active with ended_at null when the
\* supervising process dies is, after the store is opened again, the same record
\* with status interrupted and a non-null ended_at.
C7_RestartRecovery ==
    [][step' = "Restart" =>
          \A id \in DOMAIN store :
              (store[id].status \in ACTIVE_STATUSES /\ store[id].ended_at = None)
                 => /\ id \in DOMAIN store'
                    /\ store'[id].record_id = id
                    /\ store'[id].status = "interrupted"
                    /\ store'[id].ended_at # None]_vars

C7_Witness ==
    /\ step = "Restart"
    /\ \E a \in DOMAIN store, b \in DOMAIN store :
          /\ a # b
          /\ store[a].status = "interrupted" /\ store[a].ended_at = Some(clock)
          /\ store[a].started_at < clock
          /\ store[b].status = "interrupted" /\ store[b].ended_at = Some(clock)

StartSteps == {"StartSimulated", "StartSpawnFailed", "StartFailedSetEnded", "StartSpawned"}

\* C8: when the CLI probe reported the tool unavailable, a Start spawns no process:
\* it creates a simulated-active row, registers an entry without process handle
\* and with the simulated marker, and returns the record.
C8_SimulatedStart ==
    (step \in StartSteps /\ ~aws_cli_available) =>
        /\ step = "StartSimulated"
        /\ last.op = "start" /\ last.ret = "record"
        /\ Cardinality(DOMAIN store) = last.n_before + 1
        /\ last.id \in DOMAIN store
        /\ store[last.id].status = "simulated-active"
        /\ last.id \in DOMAIN active_port_forwards
        /\ active_port_forwards[last.id].simulated
        /\ active_port_forwards[last.id].process = None

C8_Witness ==
    /\ step = "StartSimulated"
    /\ ~aws_cli_available
    /\ Cardinality(DOMAIN store) = 2

\* C9: when the spawn fails, Start returns None, having created exactly one row,
\* with status failed, ended_at set and the failure reason as note, and no
\* registry entry.
C9_SpawnFailure ==
    step = "StartFailedSetEnded" =>
        /\ last.op = "start" /\ last.ret = "None"
        /\ Cardinality(DOMAIN store) = last.n_before + 1
        /\ last.id \in DOMAIN store
        /\ store[last.id].status = "failed"
        /\ store[last.id].ended_at # None
        /\ store[last.id].note = Some("Failed to start process: OSError")
        /\ last.id \notin DOMAIN active_port_forwards

C9_Witness ==
    /\ step = "StartFailedSetEnded"
    /\ DOMAIN active_port_forwards # {}

\* C10: when the spawn succeeds, Start returns the record, having created one row
\* with status active and registered under its identifier an entry that holds the
\* handle of the child just spawned.
C10_SpawnSuccess ==
    step = "StartSpawned" =>
        /\ last.op = "start" /\ last.ret = "record"
        /\ Cardinality(DOMAIN store) = last.n_before + 1
        /\ last.id \in DOMAIN store
        /\ store[last.id].status = "active"
        /\ store[last.id].ended_at = None
        /\ last.id \in DOMAIN active_port_forwards
        /\ ~active_port_forwards[last.id].simulated
        /\ active_port_forwards[last.id].process = Some(NewProcess)

C10_Witness ==
    /\ step = "StartSpawned"
    /\ Cardinality(DOMAIN active_port_forwards) = 2

\* Exit codes of a child killed by a signal that Stop delivered to it.
SentSignalCodes(process) ==
    {-SIGTERM : i \in {j \in DOMAIN process.signals : process.signals[j] = "SIGTERM"}}
       \cup {-SIGKILL : i \in {j \in DOMAIN process.signals : process.signals[j] = "SIGKILL"}}

\* The status the termination protocol's outcome calls for: stopped when the exit
\* code is absent, zero or that of a signal Stop sent, failed otherwise.
StatusForSentSignals(process) ==
    IF \/ Poll(process) = None
       \/ Poll(process)[1] = 0
       \/ Poll(process)[1] \in SentSignalCodes(process)
    THEN "stopped"
    ELSE "failed"

\* C11: when Stop finishes on a real entry, the record becomes stopped if the exit
\* code observed after the termination protocol is zero, absent, or consistent
\* with the signal Stop just sent, and failed otherwise, on every path, the one
\* where the child had exited before Stop was called and no signal was sent
\* included.
C11_FinalStatus ==
    [][(pc = "finalize" /\ step' = "StopFinalize")
          => store'[cur].status = StatusForSentSignals(CurProcess)]_vars

\* The signals delivered to the child of entry id changed in this step.
SignalSent(id) ==
    /\ id \in DOMAIN active_port_forwards /\ id \in DOMAIN active_port_forwards'
    /\ active_port_forwards[id].process # None
    /\ active_port_forwards'[id].process # None
    /\ active_port_forwards'[id].process[1].signals
          # active_port_forwards[id].process[1].signals

\* C12: for a real entry the stop-requested flag is set before any signal is
\* sent; a child that has already exited is sent no signal; SIGTERM is always
\* sent before SIGKILL; and SIGKILL is sent only to a child still alive after the
\* first bounded wait expired.
C12_TerminationOrdering ==
    [][\A id \in RecordIds :
          SignalSent(id) =>
             LET runtime == active_port_forwards[id]
                 before == runtime.process[1]
                 after == active_port_forwards'[id].process[1]
             IN  /\ runtime.stopping
                 /\ before.alive
                 /\ \/ /\ pc = "terminate"
                       /\ before.signals = <<>>
                       /\ after.signals = << "SIGTERM" >>
                    \/ /\ pc = "wait_term"
                       /\ before.signals = << "SIGTERM" >>
                       /\ after.signals = << "SIGTERM", "SIGKILL" >>]_vars

C12_Witness ==
    /\ pc = "wait_kill"
    /\ active_port_forwards[cur].stopping
    /\ active_port_forwards[cur].process[1].signals = << "SIGTERM", "SIGKILL" >>
    /\ \E id \in DOMAIN active_port_forwards :
          /\ id # cur
          /\ ~active_port_forwards[id].process[1].alive
          /\ active_port_forwards[id].process[1].signals = <<>>

\* A call of stop_port_forward on a real entry is inside _terminate_process or
\* about to write its result.
StopRunning == pc \in {"terminate", "wait_term", "wait_kill", "finalize"}

\* The order in which a Stop passes through its waits: each wait at most once.
StopProgress(a, b) ==
    \/ a = "idle" /\ b = "terminate"
    \/ a = "terminate" /\ b \in {"wait_term", "finalize"}
    \/ a = "wait_term" /\ b \in {"wait_kill", "finalize"}
    \/ a = "wait_kill" /\ b = "finalize"
    \/ a = "finalize" /\ b = "idle"

\* C13: a Stop on a registered real entry goes through at most two bounded waits,
\* the grace period and then the post-kill period, each once; a child still alive
\* after the post-kill wait is left alone, with no retry and no error; Stop then
\* makes the record terminal, removes the registry entry and returns True; and a
\* Stop that has begun always comes to its end.
C13_StopTerminates ==
    /\ [][/\ (StopRunning /\ pc' # pc /\ step' # "Restart") => StopProgress(pc, pc')
          /\ (pc = "wait_kill" /\ step' # "Restart")
                => (pc' \in {"wait_kill", "finalize"} /\ ~SignalSent(cur))
          /\ (pc = "finalize" /\ pc' # pc /\ step' # "Restart")
                => /\ store'[cur].status \in TerminalStatuses
                   /\ store'[cur].ended_at # None
                   /\ cur \notin DOMAIN active_port_forwards'
                   /\ last'.op = "stop" /\ last'.id = cur /\ last'.ret = "True"]_vars
    /\ (StopRunning ~> ~StopRunning)

C13_Witness ==
    /\ step = "StopFinalize"
    /\ last.op = "stop" /\ last.ret = "True"
    /\ store[last.id].status = "stopped"
    /\ store[last.id].note = Some("Stopped by user (exit=None).")
    /\ last.id \notin DOMAIN active_port_forwards

\* An entry backed by a real process.
RealEntry(id) ==
    /\ id \in DOMAIN active_port_forwards
    /\ ~active_port_forwards[id].simulated
    /\ active_port_forwards[id].process # None

\* C14: on a poll tick, for every registry entry backed by a real process: if the
\* child has not exited nothing changes; if it has exited the record becomes
\* stopped when the stop-requested flag is set, completed when it is not set and
\* the exit code is zero, failed when it is not set and the exit code is non-zero,
\* ended_at is set, the note carries the exit code and the entry is removed; so
\* after the tick no registry entry refers to an exited real process.
C14_Reconciliation ==
    [][step' = "PollTick" =>
          /\ \A id \in RecordIds :
                RealEntry(id) =>
                   LET runtime == active_port_forwards[id]
                       child == runtime.process[1]
                   IN  IF child.alive
                       THEN /\ id \in DOMAIN active_port_forwards'
                            /\ active_port_forwards'[id] = runtime
                            /\ store'[id] = store[id]
                       ELSE /\ store'[id].status =
                                  (IF runtime.stopping THEN "stopped"
                                   ELSE IF child.returncode = 0 THEN "completed"
                                   ELSE "failed")
                            /\ store'[id].ended_at = Some(clock)
                            /\ store'[id].note =
                                  Some("Process ended (exit="
                                       \o ToString(child.returncode) \o ").")
                            /\ id \notin DOMAIN active_port_forwards'
          /\ \A id \in DOMAIN active_port_forwards' :
                /\ id \in DOMAIN active_port_forwards
                /\ active_port_forwards'[id].process # None
                      => active_port_forwards'[id].process[1].alive]_vars

C14_Witness ==
    /\ step = "PollTick"
    /\ \E a \in DOMAIN store, b \in DOMAIN active_port_forwards :
          /\ store[a].status = "completed"
          /\ store[a].ended_at = Some(clock)
          /\ store[a].note = Some("Process ended (exit=0).")
          /\ a \notin DOMAIN active_port_forwards
          /\ active_port_forwards[b].process # None
          /\ active_port_forwards[b].process[1].alive

\* C15: after shutdown_active_port_forwards returns, the Runtime Registry is
\* empty and every record whose identifier was registered when it was called has
\* a terminal status and a non-null ended_at.
C15_ShutdownStopsAll ==
    step = "ShutdownReturn" =>
        /\ active_port_forwards = EmptyMap
        /\ \A i \in DOMAIN shutdown_ids :
              /\ shutdown_ids[i] \in DOMAIN store
              /\ store[shutdown_ids[i]].status \in TerminalStatuses
              /\ store[shutdown_ids[i]].ended_at # None

C15_Witness ==
    /\ step = "ShutdownReturn"
    /\ Len(shutdown_ids) = 2
    /\ store[shutdown_ids[1]].status = "stopped"
    /\ store[shutdown_ids[2]].status = "failed"

\* C16: a failure to cleanly stop one forward (a signal that cannot be delivered,
\* a termination timeout, an error while the record is finalized) never
\* propagates out of its Stop, and a running ShutdownAll is never left before
\* Stop has been attempted on every forward of its snapshot.
C16_ShutdownProgress ==
    [][/\ last'.ret # "raised"
       /\ (in_shutdown /\ ~in_shutdown' /\ step' # "Restart")
             => (step' = "ShutdownReturn" /\ shutdown_pending = <<>>)]_vars

\* C17: a Stop on an identifier with no live Runtime Registry entry (never
\* started, spawn failed, already stopped, already reconciled by the poll, or
\* interrupted by a restart) returns False, raises nothing, and leaves every
\* History Store row and the Runtime Registry as they were.
C17_StopUnknown ==
    [][\A id \in RecordIds :
          (id \notin DOMAIN active_port_forwards /\ StopCalledOn(id))
             => /\ last'.op = "stop" /\ last'.id = id /\ last'.ret = "False"
                /\ pc' = "idle"
                /\ store' = store
                /\ active_port_forwards' = active_port_forwards]_vars

C17_Witness ==
    /\ step = "StopCall"
    /\ last.op = "stop" /\ last.ret = "False"
    /\ last.id \in DOMAIN store
    /\ store[last.id].status = "failed"
    /\ store[last.id].note = Some("Failed to start process: OSError")
    /\ \E id \in DOMAIN store : store[id].status = "completed"
    /\ active_port_forwards = EmptyMap

\* C18: a Stop on a simulated registry entry updates the record to
\* simulated-stopped, sets ended_at, removes the registry entry and returns True
\* at once: no child is signalled or polled, and the termination protocol is not
\* entered.
C18_SimulatedStop ==
    [][\A id \in RecordIds :
          (/\ id \in DOMAIN active_port_forwards
           /\ active_port_forwards[id].simulated
           /\ StopCalledOn(id))
             => /\ store'[id].status = "simulated-stopped"
                /\ store'[id].ended_at = Some(clock)
                /\ store'[id].note = Some("Stopped by user.")
                /\ \A k \in DOMAIN store \ {id} : store'[k] = store[k]
                /\ DOMAIN active_port_forwards' = DOMAIN active_port_forwards \ {id}
                /\ \A k \in DOMAIN active_port_forwards' :
                      active_port_forwards'[k] = active_port_forwards[k]
                /\ last'.op = "stop" /\ last'.id = id /\ last'.ret = "True"
                /\ pc' = "idle"]_vars

C18_Witness ==
    /\ step = "StopCall"
    /\ last.op = "stop" /\ last.ret = "True"
    /\ store[last.id].status = "simulated-stopped"
    /\ store[last.id].ended_at = Some(clock)
    /\ \E k \in DOMAIN active_port_forwards : active_port_forwards[k].simulated

\* C19: in every reachable state of the History Store a record's ended_at is
\* null exactly while its status is non-terminal and non-null once the status is
\* terminal; and ended_at is set exactly once: after it has been set no
\* operation changes it.
C19_EndedAtDiscipline ==
    /\ [](\A id \in DOMAIN store :
             (store[id].ended_at = None) <=> (store[id].status \in ACTIVE_STATUSES))
    /\ [][\A id \in DOMAIN store :
             store[id].ended_at # None
                => (id \in DOMAIN store' /\ store'[id].ended_at = store[id].ended_at)]_vars

\* The state C19 fails in for good: the application died between the two
\* statements of a failed spawn, and the next start left the row as it was.
C19_FailedRowWithoutEndedAt ==
    /\ step = "Restart"
    /\ \E id \in DOMAIN store :
          /\ store[id].status = "failed"
          /\ store[id].ended_at = None

\* What does hold of ended_at: only the row of a failed spawn is ever terminal
\* without it, and once set it never changes.
C19_EndedAtOtherwise ==
    /\ [](\A id \in DOMAIN store :
             /\ store[id].status \in ACTIVE_STATUSES => store[id].ended_at = None
             /\ (store[id].status \in TerminalStatuses /\ store[id].ended_at = None)
                   => /\ store[id].status = "failed"
                      /\ store[id].note = Some("Failed to start process: OSError"))
    /\ [][\A id \in DOMAIN store :
             store[id].ended_at # None
                => (id \in DOMAIN store' /\ store'[id].ended_at = store[id].ended_at)]_vars

\* The rows the start_port_forward that takes this step did not create itself.
RowsBeforeThisStart ==
    IF step' = "StartFailedSetEnded" THEN DOMAIN store \ {cur} ELSE DOMAIN store

\* C20: every Start, whatever its outcome, adds at most one row and leaves every
\* row that existed before it unchanged.  A start asked for from a selected
\* history row creates a new row with the ports and name of the selected one and
\* does not touch the selected row; it is refused, changing nothing, when the
\* selected row's status is active or simulated-active.
C20_StartFrame ==
    [][/\ step' \in StartSteps =>
             /\ \A id \in RowsBeforeThisStart :
                   id \in DOMAIN store' /\ store'[id] = store[id]
             /\ DOMAIN store \subseteq DOMAIN store'
             /\ Cardinality(DOMAIN store') <= last'.n_before + 1
             /\ last'.n_before = Cardinality(RowsBeforeThisStart)
       /\ (step' \in StartSteps /\ last'.selected # 0) =>
             /\ last'.selected \in RowsBeforeThisStart
             /\ last'.id \notin RowsBeforeThisStart
             /\ ~store[last'.selected].status \in ACTIVE_STATUSES
             /\ store'[last'.id].remote_port = store[last'.selected].remote_port
             /\ store'[last'.id].local_port = store[last'.selected].local_port
             /\ store'[last'.id].forward_name = store[last'.selected].forward_name
             /\ store'[last'.id].instance_id = store[last'.selected].instance_id
       /\ \A id \in DOMAIN store :
             (/\ store[id].status \in ACTIVE_STATUSES
              /\ step' \in StartSteps \cup {"StartSelectedRefused"}
              /\ last'.selected = id)
                => /\ step' = "StartSelectedRefused"
                   /\ last'.ret = "refused"
                   /\ store' = store
                   /\ active_port_forwards' = active_port_forwards]_vars

C20_Witness ==
    /\ step = "StartSpawned"
    /\ last.selected = 1 /\ last.id = 2
    /\ store[1].status = "completed"
    /\ store[2].status = "active"
    /\ store[2].forward_name = store[1].forward_name
    /\ store[2].forward_name = DefaultForwardName(15432, 5432)
    /\ store[2].local_port = 15432 /\ store[1].local_port = 15432

\* A re-start is refused while the selected row is active.
C20_RefusedWitness ==
    /\ step = "StartSelectedRefused"
    /\ last.ret = "refused"
    /\ store[last.selected].status = "simulated-active"

\* C21: across every step of create, update, store re-initialization and the
\* session manager's operations, the set of record identifiers of the History
\* Store only grows, and no record's identifier changes.
C21_RecordsPermanent ==
    [][/\ DOMAIN store \subseteq DOMAIN store'
       /\ \A id \in DOMAIN store :
             /\ store[id].record_id = id
             /\ store'[id].record_id = store[id].record_id]_vars

C21_Witness ==
    /\ step = "Restart"
    /\ Cardinality(DOMAIN store) = 2
    /\ \E a \in DOMAIN store, b \in DOMAIN store :
          /\ store[a].status = "failed" /\ store[a].ended_at # None
          /\ store[b].status = "interrupted" /\ store[b].ended_at = Some(clock)

\* C22: update(id, fields) on an existing identifier gives every field named in
\* the call the supplied value, leaves every field not named and every other
\* record untouched, and ignores an attempt to change the identifier (the call
\* completes and the other fields it names are applied).
UpdatedExisting == step' = "StoreUpdateCall" /\ last'.op = "update" /\ last'.id \in DOMAIN store

AppliedExactly(id, changes) ==
    /\ DOMAIN store' = DOMAIN store
    /\ \A f \in DOMAIN store[id] :
          store'[id][f] = IF f \in DOMAIN changes /\ f # "record_id"
                          THEN changes[f]
                          ELSE store[id][f]
    /\ \A k \in DOMAIN store \ {id} : store'[k] = store[k]

C22_UpdateAppliesSupplied ==
    [][UpdatedExisting =>
          /\ ~last'.raised
          /\ AppliedExactly(last'.id, UpdateRequest(last'.request))]_vars

\* The call that names the identifier: it raised and the row is as it was.
C22_IdentifierCallRaised ==
    /\ step = "StoreUpdateCall" /\ last.op = "update" /\ last.request = "identify"
    /\ last.raised
    /\ last.id \in DOMAIN store /\ store[last.id].status = "active"

\* What holds of every call that does not name the identifier.
C22_FrameWhenKeywordsBind ==
    [][(UpdatedExisting /\ KeywordsBind(UpdateRequest(last'.request))) =>
          /\ ~last'.raised
          /\ AppliedExactly(last'.id, UpdateRequest(last'.request))]_vars

\* C23: update on an identifier that is not in the table returns None without
\* raising, creates no record and changes no existing record.
UpdatedMissing == step' = "StoreUpdateCall" /\ last'.op = "update" /\ last'.id \notin DOMAIN store

C23_UpdateMissing ==
    [][UpdatedMissing =>
          /\ ~last'.raised
          /\ last'.ret = None
          /\ store' = store]_vars

\* The call on a missing identifier that names record_id among its keywords.
C23_MissingCallRaised ==
    /\ step = "StoreUpdateCall" /\ last.op = "update" /\ last.request = "identify"
    /\ last.raised
    /\ last.id \notin DOMAIN store /\ store # EmptyMap

\* What holds of every call on a missing identifier that does not name record_id.
C23_MissingWhenKeywordsBind ==
    [][(UpdatedMissing /\ KeywordsBind(UpdateRequest(last'.request))) =>
          /\ ~last'.raised
          /\ last'.ret = None
          /\ store' = store]_vars

\* C24: create inserts exactly one new record, under a fresh identifier distinct
\* from all existing ones, with the status given by the caller and ended_at
\* null; a blank or whitespace-only forward name is stored as
\* forward-{local}-to-{remote}, any other name is stored stripped.
IsBlank(name) == \A i \in DOMAIN name : name[i] \in Whitespace

C24_Create ==
    [][step' = "StoreCreateCall" =>
          LET id == last'.id
              rq == last'.request
          IN  /\ id \notin DOMAIN store
              /\ DOMAIN store' = DOMAIN store \cup {id}
              /\ \A k \in DOMAIN store : store'[k] = store[k]
              /\ store'[id].record_id = id
              /\ store'[id].status = rq.status
              /\ store'[id].ended_at = None
              /\ store'[id].forward_name =
                    IF IsBlank(rq.forward_name)
                    THEN DefaultForwardName(rq.local_port, rq.remote_port)
                    ELSE Strip(rq.forward_name)
              /\ store'[id].forward_name[1] \notin Whitespace
              /\ store'[id].forward_name[Len(store'[id].forward_name)] \notin Whitespace
              /\ last'.ret = Some(store'[id])]_vars

\* A whitespace-only name for ports 8080/80 was just stored as the default, next
\* to a row whose padded name " db " was stored as "db".
C24_Witness ==
    /\ step = "StoreCreateCall"
    /\ last.request.forward_name = << " " >>
    /\ store[last.id].forward_name = << "forward-8080-to-80" >>
    /\ store[last.id].status = "active" /\ store[last.id].ended_at = None
    /\ \E k \in DOMAIN store \ {last.id} :
          store[k].forward_name = << "d", "b" >> /\ store[k].status = "failed"

\* C25: list_for_instance(T) returns exactly the records whose target
\* identifier is T, each once, ordered by start time most-recent-first, and
\* never a record of another target.
C25_Listing ==
    [][step' = "StoreListCall" =>
          LET T   == last'.request
              res == last'.ret
          IN  /\ {res[i].record_id : i \in DOMAIN res} =
                    {id \in DOMAIN store : store[id].instance_id = T}
              /\ \A i \in DOMAIN res, j \in DOMAIN res :
                    i # j => res[i].record_id # res[j].record_id
              /\ \A i \in DOMAIN res, j \in DOMAIN res :
                    i < j => res[i].started_at >= res[j].started_at
              /\ \A i \in DOMAIN res :
                    /\ res[i].instance_id = T
                    /\ res[i] = RecordFromRow(store[res[i].record_id])]_vars

\* Three T1 records with distinct start times and one T2 record: the listing of
\* T1 just returned the three, most recent first.
C25_Witness ==
    /\ step = "StoreListCall"
    /\ last.request = "T1"
    /\ Len(last.ret) = 3
    /\ last.ret[1].started_at > last.ret[2].started_at
    /\ last.ret[2].started_at > last.ret[3].started_at
    /\ \E k \in DOMAIN store : store[k].instance_id = "T2"

\* C26: get_all_active_forwards returns exactly the records whose identifiers
\* are in the Runtime Registry, and get_active_forwards_for_instance(T) exactly
\* those whose registry entry has target T, ordered by start time descending;
\* every record returned has a non-terminal status, so a terminal record is
\* never returned.
IdsOf(records) == {records[i].record_id : i \in DOMAIN records}

DescendingEachOnce(records) ==
    \A i \in DOMAIN records, j \in DOMAIN records :
        i < j => /\ records[i].started_at >= records[j].started_at
                 /\ records[i].record_id # records[j].record_id

C26_ActiveProjections ==
    /\ IdsOf(GetAllActiveForwards) = DOMAIN active_port_forwards
    /\ DescendingEachOnce(GetAllActiveForwards)
    /\ \A i \in DOMAIN GetAllActiveForwards :
          /\ GetAllActiveForwards[i].status \in ACTIVE_STATUSES
          /\ GetAllActiveForwards[i].status \notin TerminalStatuses
    /\ \A T \in {"T1", "T2", "T3"} :
          LET res == GetActiveForwardsForInstance(T)
          IN  /\ IdsOf(res) = {k \in DOMAIN active_port_forwards :
                                  active_port_forwards[k].instance_id = T}
              /\ DescendingEachOnce(res)
              /\ \A i \in DOMAIN res :
                    /\ res[i].instance_id = T
                    /\ res[i].status \notin TerminalStatuses
    /\ \A id \in DOMAIN store :
          store[id].status \in TerminalStatuses => id \notin IdsOf(GetAllActiveForwards)

\* One supervised forward to T1 next to an ended one to T2: the projection of
\* T1 returns the first, none returns the second.
C26_Witness ==
    /\ Idle
    /\ Len(GetActiveForwardsForInstance("T1")) = 1
    /\ GetActiveForwardsForInstance("T2") = << >>
    /\ Len(GetAllActiveForwards) = 1
    /\ \E id \in DOMAIN store :
          store[id].instance_id = "T2" /\ store[id].status \in TerminalStatuses

\* Two supervised forwards started in different seconds: the later one first.
C26_OrderWitness ==
    /\ Len(GetAllActiveForwards) = 2
    /\ GetAllActiveForwards[1].record_id = 2
    /\ GetAllActiveForwards[1].started_at > GetAllActiveForwards[2].started_at
    /\ GetAllActiveForwards[1].instance_id # GetAllActiveForwards[2].instance_id

\* C27: the reconciliation poll never changes the record or the registry entry
\* of a simulated forward, and a simulated-active record leaves that status
\* only through a Stop or ShutdownAll (to simulated-stopped) or through the
\* startup reconciliation (to interrupted).
StopSteps == {"StopCall", "ShutdownCall", "ShutdownNext"}

C27_SimulatedNeverSelfTerminate ==
    [][/\ step' = "PollTick" =>
             \A id \in DOMAIN active_port_forwards :
                 active_port_forwards[id].simulated =>
                    /\ id \in DOMAIN active_port_forwards'
                    /\ active_port_forwards'[id] = active_port_forwards[id]
                    /\ store'[id] = store[id]
       /\ \A id \in DOMAIN store :
             (store[id].status = "simulated-active" /\ store'[id].status # "simulated-active")
                => \/ /\ store'[id].status = "simulated-stopped"
                       /\ step' \in StopSteps
                       /\ id \notin DOMAIN active_port_forwards'
                   \/ /\ store'[id].status = "interrupted"
                       /\ step' = "Restart"]_vars

\* A poll has just run, a second or more after a simulated forward was started,
\* and the forward is still registered and simulated-active.
C27_Witness ==
    /\ step = "PollTick"
    /\ \E id \in DOMAIN active_port_forwards :
          /\ active_port_forwards[id].simulated
          /\ store[id].status = "simulated-active"
          /\ store[id].started_at < clock

\* C28: the reconciliation loop and a Stop never interleave into a state where
\* one removes a registry entry the other is still escalating against: from
\* the moment a Stop has looked its entry up and set the flag until it removes
\* the entry itself, no poll runs, and the entry stays registered and flagged.
Escalating == pc \in {"terminate", "wait_term", "wait_kill", "finalize"}

C28_NoInterleaving ==
    [][Escalating =>
          /\ cur \in DOMAIN active_port_forwards
          /\ active_port_forwards[cur].stopping
          /\ step' # "PollTick"
          /\ step' \notin {"StopFinalize", "Restart"} =>
                /\ cur' = cur
                /\ cur \in DOMAIN active_port_forwards'
                /\ active_port_forwards'[cur].stopping
                /\ store'[cur].status = "active"]_vars

\* A Stop is inside its escalation and the child has already exited: the entry
\* is one the poll would reconcile and remove if it ran now.
C28_Witness ==
    /\ pc \in {"wait_term", "wait_kill"}
    /\ Reconcilable(active_port_forwards[cur])
    /\ active_port_forwards[cur].stopping
    /\ store[cur].status = "active"

\* C29: a Stop blocked in its escalation waits for one entry does not block the
\* reconciliation loop: while that Stop is in progress, a poll tick can still
\* run and reconcile another registry entry whose process has exited.
StopWaiting == pc \in {"wait_term", "wait_kill"}

OtherExited(id) ==
    /\ id \in DOMAIN active_port_forwards
    /\ id # cur
    /\ Reconcilable(active_port_forwards[id])

C29_PollRunsDuringStop ==
    (StopWaiting /\ \E id \in RecordIds : OtherExited(id)) => ENABLED PollTick

\* A Stop waits for its child while the child of another entry has exited; the
\* other entry's row is still active.
C29_StopBlocksPoll ==
    /\ StopWaiting
    /\ CurProcess.alive
    /\ \E id \in RecordIds : OtherExited(id) /\ store[id].status = "active"

\* No step taken while a Stop waits reconciles another entry (a restart of the
\* application aside).
C29_NothingReconciledMeanwhile ==
    [][StopWaiting =>
          \A id \in RecordIds :
              (OtherExited(id) /\ step' # "Restart") =>
                 /\ id \in DOMAIN active_port_forwards'
                 /\ store'[id] = store[id]]_vars

\* C30: Start accepts a request only when 1 <= remotePort <= 65535 and
\* 1 <= localPort <= 65535 and rejects it otherwise, creating nothing; so no
\* record with an out-of-range port is ever created, neither through the
\* new-forward dialog nor by a re-start from a history record.
PortInRange(port) == 1 <= port /\ port <= MAX_PORT

C30_PortValidation ==
    /\ [](\A id \in DOMAIN store :
             PortInRange(store[id].remote_port) /\ PortInRange(store[id].local_port))
    /\ [][step' = "DialogRejected" =>
             /\ store' = store
             /\ active_port_forwards' = active_port_forwards]_vars
    /\ [][(step' \in {"StartSimulated", "StartSpawned"} /\ last'.selected # 0) =>
             /\ store'[last'.id].remote_port = store[last'.selected].remote_port
             /\ store'[last'.id].local_port = store[last'.selected].local_port]_vars

\* A request for remote port 65536 has just been rejected, after one for the
\* largest port had been accepted.
C30_Witness ==
    /\ step = "DialogRejected"
    /\ last.remote_text = "65536" /\ last.local_text = "1"
    /\ \E id \in DOMAIN store : store[id].remote_port = 65535 /\ store[id].local_port = 1

\* A re-start from a history record has just created a second row with the
\* ports of the first.
C30_RestartWitness ==
    /\ step \in {"StartSimulated", "StartSpawned"}
    /\ last.selected # 0
    /\ store[last.id].remote_port = 1 /\ store[last.id].local_port = 65535
    /\ store[last.selected].status \in TerminalStatuses

\* C31: opening the store gives every record whose forward name is missing,
\* blank or whitespace-only the name forward-{local}-to-{remote}, changes no
\* other field of those records and nothing in records that have a non-blank
\* name; and every read returns a non-blank forward name for every record.
BackfillFrame(id) ==
    /\ \A f \in DOMAIN store[id] \ {"forward_name", "status", "ended_at", "note"} :
          store'[id][f] = store[id][f]
    /\ ~IsUnfinished(store[id]) =>
          \A f \in {"status", "ended_at", "note"} : store'[id][f] = store[id][f]

ReadsNonBlank ==
    /\ \A id \in DOMAIN store : ~IsBlank(StoreGet(store, id)[1].forward_name)
    /\ \A T \in {"T1", "T2"} :
          \A res \in ListForInstance(store, T) :
              \A i \in DOMAIN res : ~IsBlank(res[i].forward_name)

C31_Backfill ==
    /\ []ReadsNonBlank
    /\ [][step' = "StoreReopen" =>
             \A id \in DOMAIN store :
                 /\ store'[id].forward_name =
                       IF IsBlank(store[id].forward_name)
                       THEN DefaultForwardName(store[id].local_port, store[id].remote_port)
                       ELSE store[id].forward_name
                 /\ BackfillFrame(id)]_vars

\* The store has just been opened and a row still holds a name of one tab.
C31_TabNameKept ==
    /\ step = "StoreReopen"
    /\ \E id \in DOMAIN store : store[id].forward_name = << "\t" >>

\* What holds: the rows whose name is empty or spaces only are backfilled, all
\* other names and fields are kept, and every read gives a non-blank name.
C31_BackfillOfSpaces ==
    /\ []ReadsNonBlank
    /\ [][step' = "StoreReopen" =>
             \A id \in DOMAIN store :
                 /\ store'[id].forward_name =
                       IF SqlTrim(store[id].forward_name) = << >>
                       THEN DefaultForwardName(store[id].local_port, store[id].remote_port)
                       ELSE store[id].forward_name
                 /\ BackfillFrame(id)]_vars

\* The store has just been opened on a row whose name was spaces only.
C31_SpacesBackfilled ==
    /\ step = "StoreReopen"
    /\ \E id \in DOMAIN store :
          /\ store[id].forward_name = << "forward-8080-to-80" >>
          /\ \E other \in DOMAIN store : store[other].forward_name = << " ", "x" >>

\* C32: with the periodic poll scheduled fairly, every real forward whose child
\* process has exited without a Stop being issued eventually has its record in
\* status completed or failed with ended_at set and its entry removed from the
\* Runtime Registry (unless a Stop is issued for it after all, or the
\* supervising process itself ends first).
ExitedUnstopped(id) ==
    /\ id \in DOMAIN active_port_forwards
    /\ ~active_port_forwards[id].simulated
    /\ active_port_forwards[id].process # None
    /\ ~active_port_forwards[id].process[1].alive
    /\ ~active_port_forwards[id].stopping

ReconciledByPoll(id) ==
    /\ id \in DOMAIN store
    /\ id \notin DOMAIN active_port_forwards
    /\ store[id].status \in {"completed", "failed"}
    /\ store[id].ended_at # None
    /\ WrittenBy(id, "poll")

StopIssued(id) ==
    \/ id \in DOMAIN active_port_forwards /\ active_port_forwards[id].stopping
    \/ WrittenBy(id, "stop")

SupervisorGone(id) == id \notin DOMAIN active_port_forwards /\ WrittenBy(id, "init")

C32_ReconciliationLiveness ==
    \A id \in RecordIds :
        ExitedUnstopped(id) ~> (ReconciledByPoll(id) \/ StopIssued(id) \/ SupervisorGone(id))

\* The poll has just ended, as failed, a forward whose child had exited with
\* code 1, while another forward is still supervised.
C32_Witness ==
    /\ step = "PollTick"
    /\ \E id \in DOMAIN store :
          /\ ReconciledByPoll(id)
          /\ store[id].status = "failed"
          /\ store[id].note = Some("Process ended (exit=1).")
          /\ \E other \in DOMAIN active_port_forwards :
                active_port_forwards[other].process[1].alive

\* C33: immediately after a History Store initialization no record has status
\* active or simulated-active; a record that startup reconciliation moved to
\* interrupted is terminal ever after, is returned by no active projection,
\* and a Stop on its identifier returns False.
InterruptedAtStartup(id) == id \in DOMAIN store /\ WrittenBy(id, "init")

C33_NoStaleRecordLive ==
    /\ [](step = "Restart" => \A id \in DOMAIN store : store[id].status \notin ACTIVE_STATUSES)
    /\ [](\A id \in RecordIds :
             InterruptedAtStartup(id) =>
                /\ store[id].status = "interrupted"
                /\ store[id].ended_at # None
                /\ id \notin DOMAIN active_port_forwards
                /\ id \notin IdsOf(GetAllActiveForwards)
                /\ \A T \in {"T1", "T2"} : id \notin IdsOf(GetActiveForwardsForInstance(T)))
    /\ [][\A id \in RecordIds :
             (InterruptedAtStartup(id) /\ StopCalledOn(id))
                => /\ last'.ret = "False"
                   /\ store' = store
                   /\ active_port_forwards' = active_port_forwards]_vars

\* After a restart a new forward is supervised, and a Stop on the identifier
\* of the forward the restart interrupted has just returned False.
C33_Witness ==
    /\ step = "StopCall"
    /\ last.op = "stop" /\ last.ret = "False"
    /\ InterruptedAtStartup(last.id)
    /\ store[last.id].status = "interrupted"
    /\ Len(GetAllActiveForwards) = 1
    /\ GetAllActiveForwards[1].record_id # last.id

\* C34: store initialization leaves every record that already has a terminal
\* status completely unchanged, and on each record it moves to interrupted it
\* changes only status, ended_at and note.
MovedToInterrupted(id) == store[id].status # "interrupted" /\ store'[id].status = "interrupted"

C34_InitFrame ==
    [][step' = "StoreReopen" =>
          \A id \in DOMAIN store :
              /\ store[id].status \in TerminalStatuses => store'[id] = store[id]
              /\ MovedToInterrupted(id) =>
                    \A f \in DOMAIN store[id] \ {"status", "ended_at", "note"} :
                        store'[id][f] = store[id][f]]_vars

\* C34, amended: store initialization leaves every record that already has a
\* terminal status unchanged, and changes only status, ended_at and note of
\* each record it moves to interrupted, except that in either kind of record
\* a forward name that is empty or spaces only is replaced by
\* forward-{local}-to-{remote}.
NameBackfilled(row) ==
    [row EXCEPT !.forward_name =
        IF SqlTrim(row.forward_name) = << >>
        THEN DefaultForwardName(row.local_port, row.remote_port)
        ELSE row.forward_name]

C34_InitFrameButName ==
    [][step' = "StoreReopen" =>
          \A id \in DOMAIN store :
              /\ store[id].status \in TerminalStatuses => store'[id] = NameBackfilled(store[id])
              /\ MovedToInterrupted(id) =>
                    \A f \in DOMAIN store[id] \ {"status", "ended_at", "note"} :
                        store'[id][f] = NameBackfilled(store[id])[f]]_vars

\* The store has just been opened: a failed row whose name was spaces only has
\* the default name and is failed as before, next to a row moved to interrupted.
C34_Witness ==
    /\ step = "StoreReopen"
    /\ \E a \in DOMAIN store, b \in DOMAIN store :
          /\ store[a].status = "failed" /\ store[a].ended_at = None
          /\ store[a].forward_name = << "forward-15432-to-5432" >>
          /\ store[b].status = "interrupted"
          /\ store[b].note = Some("Marked interrupted after app restart.")

\* C35: store initialization interrupts only records whose owning process is
\* gone: it never changes the status of a record whose identifier is held in
\* the Runtime Registry of a live supervising process, as when a second
\* instance is opened on the same history file while the first still runs.
C35_InitSparesLiveOwners ==
    [][step' = "SecondOpen" =>
          \A id \in DOMAIN active_port_forwards :
              store'[id].status = store[id].status]_vars

\* A forward whose child runs and whose entry is registered has just been
\* marked interrupted by the store of a second instance.
C35_LiveForwardInterrupted ==
    /\ step = "SecondOpen"
    /\ \E id \in DOMAIN active_port_forwards :
          /\ active_port_forwards[id].process # None
          /\ active_port_forwards[id].process[1].alive
          /\ store[id].status = "interrupted"
          /\ store[id].note = Some("Marked interrupted after app restart.")

\* ------------------------------------------------------- application exit

\* action_quit: nothing while a confirmed quit is under way; self.exit() at once
\* when get_all_active_forwards() is empty, which ends app.run(); otherwise the
\* QuitConfirmScreen modal is pushed.
ActionQuit ==
    /\ Idle
    /\ ~exit_in_progress
    /\ LET active_records == GetAllActiveForwards
       IN  /\ pc' = IF active_records = <<>> THEN "run_returned" ELSE "confirm"
           /\ last' = Call("quit", 0, IF active_records = <<>> THEN "exit" ELSE "confirm")
    /\ step' = "ActionQuit"
    /\ UNCHANGED << store, active_port_forwards, aws_cli_available, clock, cur, in_shutdown,
                    in_finally, exit_in_progress, shutdown_pending, shutdown_ids,
                    status_writes >>

\* _on_quit_confirmation(confirmed) with confirmed false or None (the Cancel
\* button, Escape): one log line, nothing else.
QuitCancelled ==
    /\ pc = "confirm"
    /\ pc' = "idle"
    /\ last' = Call("quit_confirmation", 0, "cancelled")
    /\ step' = "QuitCancelled"
    /\ UNCHANGED << store, active_port_forwards, aws_cli_available, clock, cur, in_shutdown,
                    in_finally, exit_in_progress, shutdown_pending, shutdown_ids,
                    status_writes >>

\* _on_quit_confirmation(True): exit_in_progress = True, then
\* shutdown_active_port_forwards(emit_ui=False) takes its snapshot; self.exit()
\* follows when the loop returns (ShutdownReturn).
QuitConfirmed ==
    /\ pc = "confirm"
    /\ exit_in_progress' = TRUE
    /\ in_shutdown' = TRUE
    /\ shutdown_pending' = KeysInOrder(active_port_forwards)
    /\ shutdown_ids' = shutdown_pending'
    /\ pc' = "idle"
    /\ last' = Call("quit_confirmation", 0, "confirmed")
    /\ step' = "QuitConfirmed"
    /\ UNCHANGED << store, active_port_forwards, aws_cli_available, clock, cur, in_finally,
                    status_writes >>

\* The 1-second timer of on_mount keeps firing while the modal is shown.
PollBehindModal ==
    /\ pc = "confirm"
    /\ LET out == PollEntries(KeysInOrder(active_port_forwards), store,
                              active_port_forwards, status_writes)
       IN  /\ store' = out[1]
           /\ active_port_forwards' = out[2]
           /\ status_writes' = out[3]
    /\ last' = Call("poll", 0, "none")
    /\ step' = "PollBehindModal"
    /\ UNCHANGED << aws_cli_available, clock, pc, cur, in_shutdown, in_finally,
                    exit_in_progress, shutdown_pending, shutdown_ids >>

\* KeyboardInterrupt ends app.run() wherever the application is: the handler
\* that was running, if any, is abandoned where it stood; main catches the
\* exception and goes on to its "finally" block.
KeyboardInterrupt ==
    /\ pc \notin {"raised", "run_returned", "exited"}
    /\ ~in_finally
    /\ pc' = "run_returned"
    /\ cur' = 0
    /\ in_shutdown' = FALSE
    /\ shutdown_pending' = <<>>
    /\ last' = Call("interrupt", cur, "none")
    /\ step' = "KeyboardInterrupt"
    /\ UNCHANGED << store, active_port_forwards, aws_cli_available, clock, in_finally,
                    exit_in_progress, shutdown_ids, status_writes >>

NextQuit ==
    \/ Start
    \/ StartFailedSetEnded
    \/ Stop
    \/ TerminateBegin
    \/ WaitTermExited
    \/ WaitTermTimeout
    \/ WaitKillDone
    \/ StopFinalize
    \/ StopUpdateRaises
    \/ PollTick
    \/ PollBehindModal
    \/ ProcessExits
    \/ ActionQuit
    \/ QuitCancelled
    \/ QuitConfirmed
    \/ ShutdownNext
    \/ ShutdownReturn
    \/ KeyboardInterrupt
    \/ FinallyShutdownCall

SpecQuit == Init /\ [][NextQuit]_vars

\* A quit request decides by the registry alone: empty, app.run() ends in the
\* same handler; not empty, the confirmation is asked for.  It changes neither
\* the store nor the registry.
QuitDecides ==
    step' = "ActionQuit" =>
        /\ (active_port_forwards = EmptyMap => pc' = "run_returned")
        /\ (active_port_forwards # EmptyMap => pc' = "confirm")
        /\ UNCHANGED << store, active_port_forwards >>

\* A cancelled confirmation answers a request and leaves store and registry alone.
CancelKeeps ==
    step' = "QuitCancelled" =>
        /\ pc = "confirm"
        /\ pc' = "idle"
        /\ UNCHANGED << store, active_port_forwards, exit_in_progress >>

\* app.run() ends with forwards registered only by the user's confirmation
\* followed by a completed shutdown loop, or by an interrupt or an exception.
RunEndsOnlyAfterShutdown ==
    (pc' = "run_returned" /\ pc # "run_returned") =>
        \/ step' = "ActionQuit" /\ active_port_forwards = EmptyMap
        \/ step' = "ShutdownReturn" /\ exit_in_progress /\ active_port_forwards' = EmptyMap
        \/ step' = "KeyboardInterrupt"

\* main returns out of a shutdown loop of its "finally" block that ran to its end.
MainReturnsThroughShutdown ==
    (pc' = "exited" /\ pc # "exited") =>
        /\ step' = "ShutdownReturn"
        /\ in_finally
        /\ shutdown_pending = <<>>

MainReturnedClean ==
    pc = "exited" =>
        /\ active_port_forwards = EmptyMap
        /\ \A id \in DOMAIN store : store[id].status \notin {"active", "simulated-active"}

C36_ConfirmedWitness ==
    /\ pc = "exited"
    /\ exit_in_progress
    /\ \E id \in DOMAIN store : WrittenBy(id, "stop")

\* A confirmation has just been cancelled with forwards registered.
C36_CancelledWitness ==
    /\ step = "QuitCancelled"
    /\ pc = "idle"
    /\ active_port_forwards # EmptyMap

\* A quit with nothing registered has ended app.run() at once.
C36_ImmediateWitness ==
    /\ step = "ActionQuit"
    /\ pc = "run_returned"
    /\ store # EmptyMap

====
